---------------------------- MODULE Spec2Model ----------------------------
(***************************************************************************)
(* A model of the retrieval / caching engine of workspace_manager.py:      *)
(*   - BM25Search: the ranking index (documents, total_docs,               *)
(*     avg_doc_length, idf_cache), with add_document, remove_document,     *)
(*     _calculate_idf and search;                                          *)
(*   - WorkspaceManager: the content cache with its size bookkeeping       *)
(*     (_get_file_content, _update_cache_size, clear_cache), the           *)
(*     paginated directory expansion (expand_directory) and the            *)
(*     recursive scanner (_parallel_scan, _load_gitignore,                 *)
(*     _should_ignore).                                                    *)
(*                                                                         *)
(* Text is modelled as sequences of one-character strings, so that         *)
(* lower(), startswith(), endswith(), string order and the regular         *)
(* expressions built from .gitignore lines are computed, not assumed.      *)
(* Floating point values are modelled exactly where they are rational      *)
(* (avg_doc_length is a fraction) and in fixed point (thousandths) where   *)
(* the code takes a logarithm.                                             *)
(***************************************************************************)
EXTENDS Integers, Sequences, FiniteSets, TLC

VARIABLES
    documents,      \* BM25Search.documents: insertion-ordered dict, as a sequence of Document
    total_docs,     \* BM25Search.total_docs
    avg_doc_length, \* BM25Search.avg_doc_length, the fraction num/den
    idf_cache,      \* BM25Search.idf_cache: term -> idf (thousandths)
    lastOp,         \* the index operation that ran last, with its arguments
    result,         \* what the last index operation returned (a search: its list, or the error raised)
    nSearch,        \* searches since the last change of the corpus or the query (capped at 2)
    mutPc,          \* the thread inside add_document / remove_document: how far it got under _lock
    srch            \* the thread inside search: its position and local variables

VARIABLES
    files,          \* the file system: path -> whether the file exists, its content and its mtime
    content_cache,  \* WorkspaceManager._content_cache: insertion-ordered dict, as a sequence of entries
    cache_size,     \* WorkspaceManager._cache_size
    chunk_cache,    \* WorkspaceManager._chunk_cache: path -> chunk index -> chunk
    call,           \* the cache operation that ran last, its arguments and what it returned
    nWrites         \* changes made to the file system so far

idxVars == <<documents, total_docs, avg_doc_length, idf_cache, lastOp, result, nSearch>>

thrVars == <<mutPc, srch>>

cacheVars == <<files, content_cache, cache_size, chunk_cache, call, nWrites>>

VARIABLES
    present,            \* the file system under "/": the paths that exist
    dirOrder,           \* the order in which os.scandir yields the entries of a directory
    gitignore_patterns, \* WorkspaceManager._gitignore_patterns
    exp,                \* the last expand_directory call: its arguments and what it returned
    walk,               \* the items of the pages 1, 2, ... requested one after the other
    scan,               \* the last _parallel_scan call: its argument and what it returned
    dirMtime            \* os.path.getmtime of each directory

scanVars == <<present, dirOrder, gitignore_patterns, exp, walk, scan, dirMtime>>

VARIABLES
    sel,                \* the last get_workspace_files call: its arguments and what it returned
    pack,               \* the last prepareChunks call: its arguments and what it returned
    merge,              \* the last mergeResults call: the results, their order of arrival, the output
    trunc,              \* the _truncate_content_for_context call under way: its locals, its result
    reader,             \* a _get_file_content call taken one step at a time: its locals, its result
    structure_cache,    \* WorkspaceManager._structure_cache: workspace_dir -> structure
    struct,             \* the last get_workspace_structure call: its argument and what it returned
    deleted             \* the last delete_workspace call: its argument, the files before, the outcome

ctxVars == <<sel, pack, merge, trunc, reader, structure_cache, struct, deleted>>

----------------------------------------------------------------------------
(* Characters and strings *)

\* The characters used by the model, in ASCII order.
AsciiOrder ==
    << " ", "!", "#", "(", "*", ".", "/", "0", "1", "2", "?",
       "A", "B", "C", "D", "E", "F", "G", "H", "I", "J", "K", "L", "M",
       "N", "O", "P", "Q", "R", "S", "T", "U", "V", "W", "X", "Y", "Z",
       "_",
       "a", "b", "c", "d", "e", "f", "g", "h", "i", "j", "k", "l", "m",
       "n", "o", "p", "q", "r", "s", "t", "u", "v", "w", "x", "y", "z" >>

OrdTable == [c \in {AsciiOrder[i] : i \in DOMAIN AsciiOrder} |->
                CHOOSE i \in DOMAIN AsciiOrder : AsciiOrder[i] = c]

\* ord(c), up to the order-preserving renumbering of the characters above
Ord(c) == OrdTable[c]

IsUpperChar(c) == Ord(c) >= Ord("A") /\ Ord(c) <= Ord("Z")
IsLowerChar(c) == Ord(c) >= Ord("a") /\ Ord(c) <= Ord("z")
IsDigitChar(c) == Ord(c) >= Ord("0") /\ Ord(c) <= Ord("2")

\* str.lower() on one character
LowerChar(c) == IF IsUpperChar(c) THEN AsciiOrder[Ord(c) + (Ord("a") - Ord("A"))] ELSE c

\* str.lower()
Lower(s) == [i \in DOMAIN s |-> LowerChar(s[i])]

\* str.isalnum(): non-empty and every character a letter or a digit
IsAlnum(s) ==
    /\ Len(s) > 0
    /\ \A i \in DOMAIN s : IsUpperChar(s[i]) \/ IsLowerChar(s[i]) \/ IsDigitChar(s[i])

\* str.startswith / str.endswith
StartsWith(s, p) == Len(p) <= Len(s) /\ SubSeq(s, 1, Len(p)) = p
EndsWith(s, p) == Len(p) <= Len(s) /\ SubSeq(s, Len(s) - Len(p) + 1, Len(s)) = p

Range(s) == {s[i] : i \in DOMAIN s}

\* Python's order on str: s < t
RECURSIVE StrLess(_, _)
StrLess(s, t) ==
    IF t = <<>> THEN FALSE
    ELSE IF s = <<>> THEN TRUE
    ELSE IF s[1] = t[1] THEN StrLess(Tail(s), Tail(t))
    ELSE Ord(s[1]) < Ord(t[1])

RECURSIVE SumSeq(_)
SumSeq(s) == IF s = <<>> THEN 0 ELSE s[1] + SumSeq(Tail(s))

RECURSIVE SelectSeqBy(_, _)
\* the elements of s whose flag in keep is TRUE, in order
SelectSeqBy(s, keep) ==
    IF s = <<>> THEN <<>>
    ELSE (IF keep[1] THEN <<s[1]>> ELSE <<>>) \o SelectSeqBy(Tail(s), Tail(keep))

----------------------------------------------------------------------------
(* BM25Search *)

\* A text is given as the sequence of lexemes tokenizer_pattern.findall finds in it
\* (maximal \w+ runs and single symbols), before lower-casing.
Lexemes == { <<"A", "b">>, <<"x">>, <<"(">> }

MaxContentLen == 2

RECURSIVE SeqsUpTo(_, _)
SeqsUpTo(S, n) ==
    IF n = 0 THEN {<<>>}
    ELSE LET shorter == SeqsUpTo(S, n - 1)
         IN  shorter \cup {Append(s, x) : s \in {t \in shorter : Len(t) = n - 1}, x \in S}

Contents == SeqsUpTo(Lexemes, MaxContentLen)

IndexPaths == {"a.py", "b.py"}

Queries == { << <<"a", "b">> >>, << <<"(">> >>, << <<"A", "B">>, <<"(">> >>, << <<"x">> >> }

MaxTopK == 2

\* BM25Search.__init__: k1 = 1.5 = K1Num/K1Den, b = 0.75 = BNum/BDen
K1Num == 3
K1Den == 2
BNum == 3
BDen == 4

\* preprocess: lower-case, then drop one-character tokens that are alphanumeric
Tokenize(text) ==
    LET lowered == [i \in DOMAIN text |-> Lower(text[i])]
        keep == [i \in DOMAIN text |-> Len(lowered[i]) > 1 \/ ~IsAlnum(lowered[i])]
    IN  SelectSeqBy(lowered, keep)

\* preprocess on the texts of the model, computed once
PreprocessTable == [text \in Contents \cup Queries |-> Tokenize(text)]

preprocess(text) == PreprocessTable[text]

\* collections.Counter(tokens)
CounterOf(tokens) ==
    [t \in Range(tokens) |-> Cardinality({i \in DOMAIN tokens : tokens[i] = t})]

\* Document(path, content, term_freqs, length); the content is kept only for the
\* snippet and is left out of the record.
MakeDocument(path, content) ==
    LET tokens == preprocess(content)
    IN  [path |-> path, term_freqs |-> CounterOf(tokens), length |-> Len(tokens)]

DocPaths(docs) == {docs[i].path : i \in DOMAIN docs}

DocIndex(docs, path) == CHOOSE i \in DOMAIN docs : docs[i].path = path

\* self.documents[path] = doc: a stored key keeps its place, a new key goes last
DictSet(docs, path, doc) ==
    IF path \in DocPaths(docs)
    THEN [docs EXCEPT ![DocIndex(docs, path)] = doc]
    ELSE Append(docs, doc)

\* del self.documents[path]
DictDel(docs, path) ==
    SelectSeqBy(docs, [i \in DOMAIN docs |-> docs[i].path # path])

\* sum(doc.length for doc in self.documents.values())
TotalLength(docs) == SumSeq([i \in DOMAIN docs |-> docs[i].length])

\* total_length / total_docs if total_docs > 0 else 0, as a fraction
AvgOf(total_length, n) ==
    IF n > 0 THEN [num |-> total_length, den |-> n] ELSE [num |-> 0, den |-> 1]

NoCache == [t \in {} |-> 0]

\* the operation returned None
NoResult == [error |-> "none", items |-> <<>>]

\* add_document that adds the new length to the old total (a replaced document counted twice)
AddDocumentWrongAvg(docs, path, content) ==
    LET newDocs == DictSet(docs, path, MakeDocument(path, content))
    IN  [documents |-> newDocs,
         total_docs |-> Len(newDocs),
         avg_doc_length |-> AvgOf(TotalLength(docs) + MakeDocument(path, content).length, Len(newDocs)),
         idf_cache |-> NoCache]

\* add_document: the state of the index after the call
AddDocumentState(docs, path, content) ==
    LET newDocs == DictSet(docs, path, MakeDocument(path, content))
    IN  [documents |-> newDocs,
         total_docs |-> Len(newDocs),
         avg_doc_length |-> AvgOf(TotalLength(newDocs), Len(newDocs)),
         idf_cache |-> NoCache]

AddDocument(path, content) ==
    LET s == AddDocumentState(documents, path, content)
    IN  /\ documents' = s.documents
        /\ total_docs' = s.total_docs
        /\ avg_doc_length' = s.avg_doc_length
        /\ idf_cache' = s.idf_cache
        /\ lastOp' = [op |-> "add", stored |-> path \in DocPaths(documents),
                      hadIdf |-> DOMAIN idf_cache # {}]
        /\ nSearch' = 0
        /\ result' = NoResult
        /\ UNCHANGED <<thrVars, cacheVars, scanVars, ctxVars>>

\* remove_document, forgetting to clear the IDF cache
RemoveDocumentKeepIdf(docs, n, avg, cache, path) ==
    IF path \in DocPaths(docs)
    THEN LET newDocs == DictDel(docs, path)
         IN  [documents |-> newDocs,
              total_docs |-> Len(newDocs),
              avg_doc_length |-> AvgOf(TotalLength(newDocs), Len(newDocs)),
              idf_cache |-> cache]
    ELSE [documents |-> docs, total_docs |-> n, avg_doc_length |-> avg, idf_cache |-> cache]

\* remove_document: the state of the index after the call
RemoveDocumentState(docs, n, avg, cache, path) ==
    IF path \in DocPaths(docs)
    THEN LET newDocs == DictDel(docs, path)
         IN  [documents |-> newDocs,
              total_docs |-> Len(newDocs),
              avg_doc_length |-> AvgOf(TotalLength(newDocs), Len(newDocs)),
              idf_cache |-> NoCache]
    ELSE [documents |-> docs, total_docs |-> n, avg_doc_length |-> avg, idf_cache |-> cache]

RemoveDocument(path) ==
    LET s == RemoveDocumentState(documents, total_docs, avg_doc_length, idf_cache, path)
    IN  /\ documents' = s.documents
        /\ total_docs' = s.total_docs
        /\ avg_doc_length' = s.avg_doc_length
        /\ idf_cache' = s.idf_cache
        /\ lastOp' = [op |-> "remove", stored |-> path \in DocPaths(documents),
                      hadIdf |-> DOMAIN idf_cache # {}]
        /\ nSearch' = 0
        /\ result' = NoResult
        /\ UNCHANGED <<thrVars, cacheVars, scanVars, ctxVars>>


\* round(1000 * math.log(1 + (N - df + 0.5) / (df + 0.5))), row N + 1, column df + 1
IdfTable ==
    << <<  693,  -405,  -916, -1253, -1504>>,
       << 1386,   288,  -223,  -560,  -811>>,
       << 1792,   693,   182,  -154,  -405>>,
       << 2079,   981,   470,   134,  -118>>,
       << 2303,  1204,   693,   357,   105>> >>

IdfMilli(n, df) == IdfTable[n + 1][df + 1]

\* sum(1 for doc in self.documents.values() if term in doc.term_freqs)
DocFreq(docs, term) == Cardinality({i \in DOMAIN docs : term \in DOMAIN docs[i].term_freqs})

\* _calculate_idf that returns the fresh value but caches the one of a corpus one document larger
CalculateIdfCachesOther(cache, docs, n, term) ==
    IF term \in DOMAIN cache
    THEN [idf |-> cache[term], cache |-> cache]
    ELSE LET idf == IdfMilli(n, DocFreq(docs, term))
         IN  [idf |-> idf,
              cache |-> [t \in DOMAIN cache \cup {term} |->
                            IF t = term THEN IdfMilli(n + 1, DocFreq(docs, term)) ELSE cache[t]]]

\* _calculate_idf: the value returned and the cache after the call
CalculateIdf(cache, docs, n, term) ==
    IF term \in DOMAIN cache
    THEN [idf |-> cache[term], cache |-> cache]
    ELSE LET idf == IdfMilli(n, DocFreq(docs, term))
         IN  [idf |-> idf,
              cache |-> [t \in DOMAIN cache \cup {term} |-> IF t = term THEN idf ELSE cache[t]]]

\* doc_len_norm = 1 - b + b * (doc.length / avg_doc_length), as the fraction LenNormNum / LenNormDen
LenNormNum(length, avg) == (BDen - BNum) * avg.num + BNum * length * avg.den
LenNormDen(avg) == BDen * avg.num

\* idf * tf * (k1 + 1) / (tf + k1 * doc_len_norm), in thousandths
TermScore(idf, tf, length, avg) ==
    (idf * tf * (K1Num + K1Den) * LenNormDen(avg))
        \div (tf * K1Den * LenNormDen(avg) + K1Num * LenNormNum(length, avg))

RECURSIVE ScoreTerms(_, _, _, _, _, _)
\* the loop over query_terms for one document: its score and the IDF cache afterwards
ScoreTerms(doc, terms, docs, n, avg, cache) ==
    IF terms = <<>> THEN [score |-> 0, cache |-> cache]
    ELSE IF Head(terms) \in DOMAIN doc.term_freqs
    THEN LET r == CalculateIdf(cache, docs, n, Head(terms))
             rest == ScoreTerms(doc, Tail(terms), docs, n, avg, r.cache)
         IN  [score |-> TermScore(r.idf, doc.term_freqs[Head(terms)], doc.length, avg) + rest.score,
              cache |-> rest.cache]
    ELSE ScoreTerms(doc, Tail(terms), docs, n, avg, cache)

RECURSIVE ScoreDocs(_, _, _, _, _, _)
\* the loop over self.documents.items(): the scores dict (documents of score > 0,
\* in insertion order) and the IDF cache afterwards
ScoreDocs(todo, terms, docs, n, avg, cache) ==
    IF todo = <<>> THEN [scores |-> <<>>, cache |-> cache]
    ELSE LET r == ScoreTerms(Head(todo), terms, docs, n, avg, cache)
             rest == ScoreDocs(Tail(todo), terms, docs, n, avg, r.cache)
         IN  [scores |-> (IF r.score > 0
                          THEN <<[path |-> Head(todo).path, score |-> r.score]>>
                          ELSE <<>>) \o rest.scores,
              cache |-> rest.cache]

RECURSIVE InsertByScoreAsc(_, _)
InsertByScoreAsc(sorted, x) ==
    IF sorted = <<>> THEN <<x>>
    ELSE IF x.score < sorted[1].score THEN <<x>> \o sorted
    ELSE <<sorted[1]>> \o InsertByScoreAsc(Tail(sorted), x)

RECURSIVE SortAscending(_)
\* the scores sorted the wrong way round (reverse=True forgotten)
SortAscending(scores) ==
    IF scores = <<>> THEN <<>>
    ELSE InsertByScoreAsc(SortAscending(SubSeq(scores, 1, Len(scores) - 1)), scores[Len(scores)])

RECURSIVE InsertByScore(_, _)
\* x placed after every element whose score is at least its own
InsertByScore(sorted, x) ==
    IF sorted = <<>> THEN <<x>>
    ELSE IF sorted[1].score >= x.score THEN <<sorted[1]>> \o InsertByScore(Tail(sorted), x)
    ELSE <<x>> \o sorted

RECURSIVE SortByScore(_)
\* sorted(scores.items(), key=lambda x: x[1], reverse=True): stable, descending
SortByScore(scores) ==
    IF scores = <<>> THEN <<>>
    ELSE InsertByScore(SortByScore(SubSeq(scores, 1, Len(scores) - 1)), scores[Len(scores)])

\* seq[:k] for k >= 0
Prefix(s, k) == SubSeq(s, 1, IF k < Len(s) THEN k ELSE Len(s))

\* search: what it returns (its (path, score) pairs, or the error raised by the
\* division by avg_doc_length) and the IDF cache afterwards
SearchOutcome(docs, n, avg, cache, query, top_k) ==
    IF docs # <<>> /\ avg.num = 0
    THEN [error |-> "ZeroDivisionError", items |-> <<>>, cache |-> cache]
    ELSE LET r == ScoreDocs(docs, preprocess(query), docs, n, avg, cache)
         IN  [error |-> "none", items |-> Prefix(SortByScore(r.scores), top_k), cache |-> r.cache]

Search(query, top_k) ==
    LET r == SearchOutcome(documents, total_docs, avg_doc_length, idf_cache, query, top_k)
    IN  /\ result' = [error |-> r.error, items |-> r.items]
        /\ idf_cache' = r.cache
        /\ lastOp' = [op |-> "search", query |-> query, top_k |-> top_k]
        /\ nSearch' = IF lastOp.op = "search" /\ lastOp.query = query /\ lastOp.top_k = top_k
                         /\ nSearch >= 1
                      THEN 2 ELSE 1
        /\ UNCHANGED <<documents, total_docs, avg_doc_length>>
        /\ UNCHANGED <<thrVars, cacheVars, scanVars, ctxVars>>

----------------------------------------------------------------------------
(* WorkspaceManager: _get_file_content, _update_cache_size, clear_cache *)

\* The class constants, in units of a third of a MiB and with the entry limit
\* scaled down: files are "small" below 3 units, a chunk is 3 units.
LARGE_FILE_THRESHOLD == 3
CHUNK_SIZE == 3
MAX_CACHE_SIZE == 3
MAX_CACHE_ENTRIES == 1

MaxWrites == 2
MaxTracked == 4

CachePaths == {"a.py", "b.py"}

\* the files of the workspace (the two above and five more), as the keys of
\* the file system
WorkspacePaths == {"a.py", "b.py", "s.css", "d/ab.md", "d/n.md", "d/m.md", "d/e.py"}

\* each file's path relative to the workspace, and what it holds at the start
WorkspaceFiles ==
    [path \in WorkspacePaths |->
        CASE path = "a.py"    -> [rel |-> <<"a", ".", "p", "y">>, content |-> "one"]
          [] path = "b.py"    -> [rel |-> <<"b", ".", "p", "y">>, content |-> "two"]
          [] path = "s.css"   -> [rel |-> <<"s", ".", "c", "s", "s">>, content |-> "par"]
          [] path = "d/ab.md" -> [rel |-> <<"d", "/", "a", "b", ".", "m", "d">>, content |-> "par"]
          [] path = "d/n.md"  -> [rel |-> <<"d", "/", "n", ".", "m", "d">>, content |-> "one"]
          [] path = "d/m.md"  -> [rel |-> <<"d", "/", "m", ".", "m", "d">>, content |-> "par"]
          [] path = "d/e.py"  -> [rel |-> <<"d", "/", "e", ".", "p", "y">>, content |-> "nil"] ]

\* [x] * n
Repeat(x, n) == [i \in 1..n |-> x]

\* What a file can hold: size is os.path.getsize and encoded is
\* len(content.encode("utf-8")) of the text read from it, both in whole units
\* of a third of a MiB (349525 bytes); text is the lexemes of each chunk of
\* CHUNK_SIZE bytes; lines is the number of characters of each line of each
\* chunk (no text ends in a line break).  "one" is a single line, "two" is 120
\* lines, the first chunk of "big" is 15 lines, "lrg" is a large file of one
\* chunk, "par" is one character and "nil" is the empty file.
ContentInfo ==
    [id \in {"one", "two", "big", "lrg", "par", "nil"} |->
        CASE id = "one"   -> [size |-> 1, encoded |-> 1, text |-> << << <<"A", "b">> >> >>,
                              lines |-> << <<349525>> >>]
          [] id = "two"   -> [size |-> 2, encoded |-> 2, text |-> << << <<"A", "b">>, <<"(">> >> >>,
                              lines |-> << Repeat(5826, 120) >>]
          [] id = "big"   -> [size |-> 4, encoded |-> 4,
                              text |-> << << <<"A", "b">> >>, << <<"(">> >> >>,
                              lines |-> << Repeat(69904, 15), <<349524>> >>]
          [] id = "lrg"   -> [size |-> 3, encoded |-> 3, text |-> << << <<"(">> >> >>,
                              lines |-> << Repeat(69904, 15) >>]
          [] id = "par"   -> [size |-> 0, encoded |-> 0, text |-> << << <<"(">> >> >>,
                              lines |-> << <<1>> >>]
          [] id = "nil"   -> [size |-> 0, encoded |-> 0, text |-> << <<>> >>,
                              lines |-> << <<>> >>] ]

\* the contents the writes of another process choose from
ContentIds == {"one", "two", "big"}

\* (start_chunk, num_chunks) of the calls
ChunkWindows == { <<0, 1>>, <<0, 2>>, <<1, 1>> }

\* a piece of returned text: a whole small file (chunk -1) or one chunk of a large one
WholeFile(id) == << [content |-> id, chunk |-> -1] >>

RECURSIVE PiecesText(_)
\* the text of "".join(chunks)
PiecesText(pieces) ==
    IF pieces = <<>> THEN <<>>
    ELSE ContentInfo[pieces[1].content].text[IF pieces[1].chunk = -1 THEN 1 ELSE pieces[1].chunk + 1]
             \o PiecesText(Tail(pieces))

RECURSIVE EncodedSize(_)
\* len(content.encode("utf-8")) of returned text
EncodedSize(pieces) ==
    IF pieces = <<>> THEN 0
    ELSE ContentInfo[pieces[1].content].encoded + EncodedSize(Tail(pieces))

RECURSIVE Evict(_, _)
\* _update_cache_size: while size or count is over the limit, pop the oldest-inserted
\* entry; next(iter({})) on an empty dict raises StopIteration
Evict(cache, tracked) ==
    IF tracked > MAX_CACHE_SIZE \/ Len(cache) > MAX_CACHE_ENTRIES
    THEN IF cache = <<>>
         THEN [cache |-> cache, size |-> tracked, raised |-> "StopIteration"]
         ELSE Evict(Tail(cache), tracked - EncodedSize(cache[1].content))
    ELSE [cache |-> cache, size |-> tracked, raised |-> "none"]

\* _update_cache_size(path, content) with is_add = True
UpdateCacheSize(cache, tracked, content) == Evict(cache, tracked + EncodedSize(content))

\* os.path.getmtime(file_path) == mtime and size == file_size
CacheHit(entry, mtime, file_size) == entry.mtime = mtime /\ entry.size = file_size

\* the entry of path in the content cache, as a sequence of zero or one entry
EntryOf(cache, path) ==
    IF path \in DocPaths(cache) THEN <<cache[DocIndex(cache, path)]>> ELSE <<>>

IndexState == [documents |-> documents, total_docs |-> total_docs,
               avg_doc_length |-> avg_doc_length, idf_cache |-> idf_cache]

\* the caches and the index a call of _get_file_content starts from
CacheState == [content_cache |-> content_cache, cache_size |-> cache_size,
               chunk_cache |-> chunk_cache, index |-> IndexState]

\* the outcome of a call that leaves the caches and the index as they are
Returns(st, pieces, raised) ==
    [content_cache |-> st.content_cache, cache_size |-> st.cache_size,
     chunk_cache |-> st.chunk_cache,
     index |-> st.index, indexed |-> FALSE, ret |-> pieces, raised |-> raised]

\* os.path.getsize or open raises OSError, and the error leaves _get_file_content
ReadFailsRaising(st) == Returns(st, <<>>, "OSError")

\* os.path.getsize or open raises OSError: the except of _get_file_content
\* returns ""
ReadFails(st) == Returns(st, <<>>, "none")

\* what follows f.read(): _update_cache_size, the store of (content, mtime,
\* file_size), add_document
StoreSmall(st, path, read, mtime, file_size) ==
    LET content == WholeFile(read)
        upd == UpdateCacheSize(st.content_cache, st.cache_size, content)
    IN  IF upd.raised # "none"
        THEN [content_cache |-> upd.cache, cache_size |-> upd.size,
              chunk_cache |-> st.chunk_cache,
              index |-> st.index, indexed |-> FALSE, ret |-> <<>>, raised |-> upd.raised]
        ELSE [content_cache |-> DictSet(upd.cache, path,
                                        [path |-> path, content |-> content, mtime |-> mtime,
                                         size |-> file_size]),
              cache_size |-> upd.size,
              chunk_cache |-> st.chunk_cache,
              index |-> AddDocumentState(st.index.documents, path, PiecesText(content)),
              indexed |-> TRUE, ret |-> content, raised |-> "none"]

\* the small-file branch after a miss: read, _update_cache_size, store, add_document.
\* (file_path, an absolute path, is never a key of search_index.documents, whose
\* keys are relative paths, so add_document runs on every miss.)
ReadSmall(st, path, file) == StoreSmall(st, path, file.content, file.mtime,
                                        ContentInfo[file.content].size)

RECURSIVE ReadChunks(_, _, _, _)
\* the loop over range(start_chunk, start_chunk + num_chunks): the chunks of the
\* path after it and the chunks collected.  On a file that cannot be opened the
\* mmap read and the fallback read both raise OSError (raised), which ends the loop.
ReadChunks(cached, file, i, last) ==
    IF i > last THEN [cached |-> cached, chunks |-> <<>>, raised |-> FALSE]
    ELSE IF i \in DOMAIN cached
    THEN LET rest == ReadChunks(cached, file, i + 1, last)
         IN  [cached |-> rest.cached, chunks |-> <<cached[i]>> \o rest.chunks,
              raised |-> rest.raised]
    ELSE IF i * CHUNK_SIZE >= ContentInfo[file.content].size
    THEN [cached |-> cached, chunks |-> <<>>, raised |-> FALSE]
    ELSE IF ~file.readable
    THEN [cached |-> cached, chunks |-> <<>>, raised |-> TRUE]
    ELSE LET chunk == [content |-> file.content, chunk |-> i]
             stored == [k \in DOMAIN cached \cup {i} |-> IF k = i THEN chunk ELSE cached[k]]
             rest == ReadChunks(stored, file, i + 1, last)
         IN  [cached |-> rest.cached, chunks |-> <<chunk>> \o rest.chunks,
              raised |-> rest.raised]

NoChunks == [k \in {} |-> 0]

\* the large-file branch
ReadLarge(st, path, file, start_chunk, num_chunks) ==
    LET cached == IF path \in DOMAIN st.chunk_cache THEN st.chunk_cache[path] ELSE NoChunks
        r == ReadChunks(cached, file, start_chunk, start_chunk + num_chunks - 1)
        chunk_cache_ == [q \in DOMAIN st.chunk_cache \cup {path} |->
                            IF q = path THEN r.cached ELSE st.chunk_cache[q]]
    IN  IF r.raised
        THEN ReadFails([st EXCEPT !.chunk_cache = chunk_cache_])
        ELSE [content_cache |-> st.content_cache,
              cache_size |-> st.cache_size,
              chunk_cache |-> chunk_cache_,
              index |-> IF r.chunks # <<>>
                        THEN AddDocumentState(st.index.documents, path, PiecesText(r.chunks))
                        ELSE st.index,
              indexed |-> r.chunks # <<>>, ret |-> r.chunks, raised |-> "none"]

\* _get_file_content(file_path, start_chunk, num_chunks), starting from the
\* caches and the index st
GetFileContent(st, path, start_chunk, num_chunks) ==
    LET file == files[path]
        entry == EntryOf(st.content_cache, path)
    IN  IF ~file.exists
        THEN ReadFails(st)
        ELSE IF ContentInfo[file.content].size < LARGE_FILE_THRESHOLD
        THEN IF entry # <<>> /\ CacheHit(entry[1], file.mtime, ContentInfo[file.content].size)
             THEN Returns(st, entry[1].content, "none")
             ELSE IF ~file.readable
             THEN ReadFails(st)
             ELSE ReadSmall(st, path, file)
        ELSE ReadLarge(st, path, file, start_chunk, num_chunks)

GetContent(path, start_chunk, num_chunks) ==
    \E r \in {GetFileContent(CacheState, path, start_chunk, num_chunks)} :
        /\ cache_size <= MaxTracked
        /\ content_cache' = r.content_cache
        /\ cache_size' = r.cache_size
        /\ chunk_cache' = r.chunk_cache
        /\ call' = [op |-> "get", path |-> path, ret |-> r.ret, raised |-> r.raised,
                    entry |-> EntryOf(content_cache, path)]
        /\ documents' = r.index.documents
        /\ total_docs' = r.index.total_docs
        /\ avg_doc_length' = r.index.avg_doc_length
        /\ idf_cache' = r.index.idf_cache
        /\ IF r.indexed
           THEN /\ lastOp' = [op |-> "add", stored |-> path \in DocPaths(documents),
                              hadIdf |-> DOMAIN idf_cache # {}]
                /\ nSearch' = 0
                /\ result' = NoResult
           ELSE UNCHANGED <<lastOp, nSearch, result>>
        /\ UNCHANGED <<files, nWrites, thrVars, scanVars, ctxVars>>

\* clear_cache(file_path)
ClearCachePath(path) ==
    /\ content_cache' = DictDel(content_cache, path)
    /\ chunk_cache' = [q \in DOMAIN chunk_cache \ {path} |-> chunk_cache[q]]
    /\ call' = [op |-> "clear"]
    /\ UNCHANGED <<files, cache_size, nWrites, idxVars, thrVars, scanVars, ctxVars>>

\* clear_cache()
ClearCacheAll ==
    /\ content_cache' = <<>>
    /\ structure_cache' = [p \in {} |-> <<>>]
    /\ chunk_cache' = [q \in {} |-> NoChunks]
    /\ call' = [op |-> "clear"]
    /\ UNCHANGED <<files, cache_size, nWrites, idxVars, thrVars, scanVars, sel, pack, merge, trunc, reader, struct, deleted>>

\* Another process writes the file.  Its mtime moves to a new value, or stays
\* (a write within the timestamp granularity, or os.utime afterwards).
WriteFile(path, content, keepMtime) ==
    /\ nWrites < MaxWrites
    /\ files[path].exists => files[path].content # content
    /\ files' = [files EXCEPT ![path] =
                    [exists |-> TRUE, content |-> content,
                     mtime |-> IF keepMtime THEN files[path].mtime ELSE nWrites + 1,
                     readable |-> ~files[path].exists \/ files[path].readable]]
    /\ nWrites' = nWrites + 1
    /\ call' = [op |-> "write"]
    /\ UNCHANGED <<content_cache, cache_size, chunk_cache, idxVars, thrVars, scanVars, ctxVars>>

\* Another process removes the file.
DeleteFile(path) ==
    /\ nWrites < MaxWrites
    /\ files[path].exists
    /\ files' = [files EXCEPT ![path].exists = FALSE]
    /\ nWrites' = nWrites + 1
    /\ call' = [op |-> "write"]
    /\ UNCHANGED <<content_cache, cache_size, chunk_cache, idxVars, thrVars, scanVars, ctxVars>>

\* Another process takes the read permission from the file (os.chmod(path, 0)):
\* os.path.getsize and os.path.getmtime still succeed, open raises PermissionError.
MakeUnreadable(path) ==
    /\ nWrites < MaxWrites
    /\ files[path].exists
    /\ files[path].readable
    /\ files' = [files EXCEPT ![path].readable = FALSE]
    /\ nWrites' = nWrites + 1
    /\ call' = [op |-> "write"]
    /\ UNCHANGED <<content_cache, cache_size, chunk_cache, idxVars, thrVars, scanVars, ctxVars>>

InitCache ==
    /\ files = [path \in WorkspacePaths |->
                   [exists |-> TRUE, content |-> WorkspaceFiles[path].content, mtime |-> 0,
                    readable |-> TRUE]]
    /\ content_cache = <<>>
    /\ cache_size = 0
    /\ chunk_cache = [q \in {} |-> NoChunks]
    /\ call = [op |-> "init"]
    /\ nWrites = 0

----------------------------------------------------------------------------
(* The file system seen by the scanner, paths, and the .gitignore patterns *)

\* file and directory names, as sequences of characters
nW == <<"w">>
nW2 == <<"w", "2">>
nO == <<"o">>
nUpperA == <<"A">>
nB == <<"b">>
nA == <<"a">>
nC == <<"c">>
nUpperC == <<"C">>
nK == <<"k">>
nF == <<"f">>
nDotK == <<".", "k">>
nTmp == <<"t", "m", "p">>
nXPy == <<"x", ".", "p", "y">>
nDebugLog == <<"d", "e", "b", "u", "g", ".", "l", "o", "g">>
nReadmeMd == <<"r", "e", "a", "d", "m", "e", ".", "m", "d">>
nGitignore == <<".", "g", "i", "t", "i", "g", "n", "o", "r", "e">>

\* extensions and folder names of the class constants that occur below
SKIP_EXTENSIONS == { <<".", "l", "o", "g">>, <<".", "d", "b">> }
SKIP_FOLDERS == { nTmp, <<".", "g", "i", "t">> }

\* The directories and files that can exist, as paths from "/" (sequences of
\* names): /w is the workspace root, /w2 a sibling whose name starts with the
\* root's name, /o another directory outside the root.
FsDirs ==
    { <<nW>>, <<nW, nUpperA>>, <<nW, nB>>, <<nW, nB, nDotK>>, <<nW, nB, nTmp>>,
      <<nW, nTmp>>, <<nW2>>, <<nO>> }

FsFilesAlways ==
    { <<nW, nGitignore>>, <<nW, nA>>, <<nW, nC>>, <<nW, nUpperC>>, <<nW, nK>>,
      <<nW, nReadmeMd>>,
      <<nW, nB, nXPy>>, <<nW, nB, nDotK, nF>>, <<nW, nB, nTmp, nF>>, <<nW, nTmp, nF>>,
      <<nW2, nF>>, <<nO, nF>> }

\* further files "e0", "e1", ... in the workspace root
MaxExtraFiles == 1

ExtraFiles == { <<nW, <<"e", AsciiOrder[Ord("0") + i]>> >> : i \in 0..(MaxExtraFiles - 1) }

\* files that exist in some file systems and not in others
FsFilesOptional == { <<nW, nDebugLog>> } \cup ExtraFiles

\* entry.is_dir() / entry.is_file() / os.path.exists, on a path from "/"
IsDir(fs, path) == path = <<>> \/ (path \in fs /\ path \in FsDirs)
IsFile(fs, path) == path \in fs /\ path \notin FsDirs
Exists(fs, path) == path = <<>> \/ path \in fs

\* the names in a directory
ChildNames(fs, dir) ==
    { path[Len(path)] : path \in { q \in fs : Len(q) = Len(dir) + 1 /\ SubSeq(q, 1, Len(dir)) = dir } }

RECURSIVE SortedNames(_)
\* the names of a set in Python's string order
SortedNames(names) ==
    IF names = {} THEN <<>>
    ELSE LET least == CHOOSE n \in names : \A o \in names : o = n \/ StrLess(n, o)
         IN  <<least>> \o SortedNames(names \ {least})

Reverse(s) == [i \in DOMAIN s |-> s[Len(s) + 1 - i]]

\* every name, in one order and in the opposite order
NamesForward == SortedNames({ path[Len(path)] : path \in FsDirs \cup FsFilesAlways \cup FsFilesOptional })
NamesReverse == Reverse(NamesForward)

\* os.scandir(dir): the entries in the order the file system yields them
Scandir(fs, order, dir) ==
    LET names == IF order = "forward" THEN NamesForward ELSE NamesReverse
    IN  SelectSeqBy(names, [i \in DOMAIN names |-> Append(dir, names[i]) \in fs])

RECURSIVE SplitFrom(_, _, _)
\* path.split("/") without the empty pieces: cur is the piece being read
SplitFrom(s, i, cur) ==
    IF i > Len(s) THEN (IF cur = <<>> THEN <<>> ELSE <<cur>>)
    ELSE IF s[i] = "/" THEN (IF cur = <<>> THEN <<>> ELSE <<cur>>) \o SplitFrom(s, i + 1, <<>>)
    ELSE SplitFrom(s, i + 1, Append(cur, s[i]))

SplitPath(s) == SplitFrom(s, 1, <<>>)

RECURSIVE JoinNames(_)
\* "/".join(names)
JoinNames(names) ==
    IF names = <<>> THEN <<>>
    ELSE IF Len(names) = 1 THEN names[1]
    ELSE names[1] \o <<"/">> \o JoinNames(Tail(names))

\* os.path.isabs
IsAbs(s) == s # <<>> /\ s[1] = "/"

\* os.path.join(a, b) for a relative b
PathJoin(a, b) == IF a # <<>> /\ a[Len(a)] # "/" THEN a \o <<"/">> \o b ELSE a \o b

RECURSIVE NormNames(_, _)
\* os.path.normpath on the names of an absolute path: "." dropped, ".." pops
NormNames(done, rest) ==
    IF rest = <<>> THEN done
    ELSE IF rest[1] = <<".">> THEN NormNames(done, Tail(rest))
    ELSE IF rest[1] = <<".", ".">>
    THEN NormNames(IF done = <<>> THEN <<>> ELSE SubSeq(done, 1, Len(done) - 1), Tail(rest))
    ELSE NormNames(Append(done, rest[1]), Tail(rest))

\* os.path.abspath of an absolute path, as a string
Abspath(s) == <<"/">> \o JoinNames(NormNames(<<>>, SplitPath(s)))

RECURSIVE ResolveFrom(_, _, _)
\* The kernel's path lookup from directory cur: every name on the way must be
\* an existing directory.  <<"missing">> when the lookup fails, else <<path>>.
ResolveFrom(fs, cur, rest) ==
    IF rest = <<>> THEN <<cur>>
    ELSE IF ~IsDir(fs, cur) THEN <<>>
    ELSE IF rest[1] = <<".">> THEN ResolveFrom(fs, cur, Tail(rest))
    ELSE IF rest[1] = <<".", ".">>
    THEN ResolveFrom(fs, IF cur = <<>> THEN <<>> ELSE SubSeq(cur, 1, Len(cur) - 1), Tail(rest))
    ELSE IF Exists(fs, Append(cur, rest[1])) THEN ResolveFrom(fs, Append(cur, rest[1]), Tail(rest))
    ELSE <<>>

\* the file or directory an absolute path string names: <<>> if none, else <<path>>
Resolve(fs, s) == ResolveFrom(fs, <<>>, SplitPath(s))

\* A translated pattern is a sequence of regular expression items:
\* a literal character, "." (any character), ".*", and the "($|/.*)" ending.
Lit(c) == [re |-> "lit", c |-> c]
AnyChar == [re |-> "any", c |-> "."]
AnyStar == [re |-> "star", c |-> "*"]
EndOrSlash == [re |-> "end", c |-> "/"]

\* line.replace(".", r"\.").replace("*", ".*").replace("?", ".")
GlobBody(line) ==
    [i \in DOMAIN line |->
        IF line[i] = "*" THEN AnyStar
        ELSE IF line[i] = "?" THEN AnyChar
        ELSE Lit(line[i])]

\* the pattern _load_gitignore builds from one line
TranslateLine(line) ==
    (IF StartsWith(line, <<"/">>) THEN <<>> ELSE <<AnyStar>>)
        \o GlobBody(line)
        \o (IF EndsWith(line, <<"/">>) THEN <<>> ELSE <<EndOrSlash>>)

RECURSIVE LoadLines(_)
\* the loop of _load_gitignore over the stripped lines
LoadLines(lines) ==
    IF lines = <<>> THEN <<>>
    ELSE IF lines[1] # <<>> /\ ~StartsWith(lines[1], <<"#">>)
    THEN <<TranslateLine(lines[1])>> \o LoadLines(Tail(lines))
    ELSE LoadLines(Tail(lines))

RECURSIVE MatchFrom(_, _, _)
\* re.match(pattern, s) from position i: the pattern matches a prefix of s[i..]
MatchFrom(pattern, s, i) ==
    IF pattern = <<>> THEN TRUE
    ELSE LET item == pattern[1]
             rest == Tail(pattern)
         IN  CASE item.re = "lit" -> i <= Len(s) /\ s[i] = item.c /\ MatchFrom(rest, s, i + 1)
               [] item.re = "any" -> i <= Len(s) /\ MatchFrom(rest, s, i + 1)
               [] item.re = "star" -> \E j \in i..(Len(s) + 1) : MatchFrom(rest, s, j)
               [] item.re = "end" ->
                      \/ i = Len(s) + 1 /\ MatchFrom(rest, s, i)
                      \/ /\ i <= Len(s)
                         /\ s[i] = "/"
                         /\ \E j \in (i + 1)..(Len(s) + 1) : MatchFrom(rest, s, j)

\* _should_ignore(path)
ShouldIgnore(patterns, path) ==
    \E k \in DOMAIN patterns : MatchFrom(patterns[k], path, 1)

\* the modification time a directory gets when an entry is added to it or
\* removed from it: later than every time so far
NextStamp(mtimes) ==
    1 + (CHOOSE t \in Range(mtimes) : \A u \in Range(mtimes) : u <= t)

\* the directories whose entries differ between two file systems
ChangedDirs(fs, after) ==
    { SubSeq(path, 1, Len(path) - 1) : path \in (fs \ after) \cup (after \ fs) }

\* the modification times after the file system changed
Touch(mtimes, fs, after) ==
    [dir \in DOMAIN mtimes |->
        IF dir \in ChangedDirs(fs, after) THEN NextStamp(mtimes) ELSE mtimes[dir]]

\* os.path.getmtime of an existing file or directory; a file keeps the time
\* it was created with
GetMtime(mtimes, path) == IF path \in DOMAIN mtimes THEN mtimes[path] ELSE 0

----------------------------------------------------------------------------
(* WorkspaceManager.expand_directory *)

MaxPageSize == 3
MaxPage == 4

\* the dir_path arguments: "b", "a", "zz", "", "/w", "/w2", "/o", "../w2", "/w/../o"
DirPaths ==
    { nB, nA, <<"z", "z">>, <<>>, <<"/">> \o nW, <<"/">> \o nW2, <<"/">> \o nO,
      <<".", ".", "/">> \o nW2, <<"/">> \o nW \o <<"/", ".", ".", "/">> \o nO }

\* The calls: every page of every page size on the workspace root (given as
\* ""), and the first page on each of the other paths.
ExpandCalls ==
    ({ <<>> } \X ((-1)..MaxPageSize) \X (1..MaxPage))
        \cup ((DirPaths \ { <<>> }) \X {2} \X {1})

\* the workspace_dir argument: "/w"
WorkspaceDir == <<"/">> \o nW

IsHidden(name) == StartsWith(name, <<".">>)

HasSkipExtension(name) == \E ext \in SKIP_EXTENSIONS : EndsWith(name, ext)

\* the peek into a subdirectory
HasChildren(fs, dir) ==
    \E name \in ChildNames(fs, dir) :
        ~IsHidden(name) /\ ~(IsDir(fs, Append(dir, name)) /\ name \in SKIP_FOLDERS)

\* whether the loop over os.scandir(abs_path) appends the entry
ExpandLists(fs, patterns, dir, name) ==
    /\ ~(IsHidden(name) \/ (IsDir(fs, Append(dir, name)) /\ name \in SKIP_FOLDERS))
    /\ ~ShouldIgnore(patterns, name)
    /\ \/ IsFile(fs, Append(dir, name)) /\ ~HasSkipExtension(name)
       \/ IsDir(fs, Append(dir, name))

\* the dict appended for an entry (size and has_children in one record)
ExpandEntry(fs, dir, name) ==
    IF IsDir(fs, Append(dir, name))
    THEN [type |-> "directory", path |-> name, size |-> 0,
          has_children |-> HasChildren(fs, Append(dir, name))]
    ELSE [type |-> "file", path |-> name, size |-> 1, has_children |-> FALSE]

\* entries, before the sort
ExpandEntries(fs, order, patterns, dir) ==
    LET names == Scandir(fs, order, dir)
        listed == SelectSeqBy(names, [i \in DOMAIN names |-> ExpandLists(fs, patterns, dir, names[i])])
    IN  [i \in DOMAIN listed |-> ExpandEntry(fs, dir, listed[i])]

\* the sort key compared with the case of the letters kept
EntryLessCaseSensitive(x, y) ==
    \/ x.type = "directory" /\ y.type # "directory"
    \/ (x.type = "directory") = (y.type = "directory") /\ StrLess(x.path, y.path)

\* key(x) < key(y) for key = (x["type"] != "directory", x["path"].lower())
EntryLess(x, y) ==
    \/ x.type = "directory" /\ y.type # "directory"
    \/ (x.type = "directory") = (y.type = "directory") /\ StrLess(Lower(x.path), Lower(y.path))

\* insert e behind every entry whose key is not greater (list.sort is stable)
InsertEntry(sorted, e) ==
    LET k == Cardinality({i \in DOMAIN sorted : ~EntryLess(e, sorted[i])})
    IN  SubSeq(sorted, 1, k) \o <<e>> \o SubSeq(sorted, k + 1, Len(sorted))

RECURSIVE SortEntries(_)
\* entries.sort(key=...)
SortEntries(entries) ==
    IF entries = <<>> THEN <<>>
    ELSE InsertEntry(SortEntries(SubSeq(entries, 1, Len(entries) - 1)), entries[Len(entries)])

\* an index of a Python slice, brought into 0..n
SliceIndex(i, n) ==
    IF i < 0 THEN (IF i + n < 0 THEN 0 ELSE i + n)
    ELSE IF i > n THEN n ELSE i

\* s[lo:hi]
PySlice(s, lo, hi) == SubSeq(s, SliceIndex(lo, Len(s)) + 1, SliceIndex(hi, Len(s)))

ExpandRaises(message) ==
    [error |-> "ValueError", message |-> message, items |-> <<>>, total_items |-> 0,
     has_more |-> FALSE]

\* expand_directory(dir_path, workspace_dir, page_size, page)
ExpandDirectory(fs, order, patterns, dir_path, workspace_dir, page_size, page) ==
    LET abs_path == IF IsAbs(dir_path) THEN dir_path ELSE PathJoin(workspace_dir, dir_path)
        target == Resolve(fs, abs_path)
    IN  IF IsAbs(dir_path) /\ ~StartsWith(Abspath(abs_path), Abspath(workspace_dir))
        THEN ExpandRaises("Path is outside workspace directory")
        ELSE IF target = <<>>
        THEN ExpandRaises("Directory not found")
        ELSE IF ~IsDir(fs, target[1])
        THEN ExpandRaises("Not a directory")
        ELSE LET entries == SortEntries(ExpandEntries(fs, order, patterns, target[1]))
                 start_idx == (page - 1) * page_size
             IN  [error |-> "none", message |-> "",
                  items |-> PySlice(entries, start_idx, start_idx + page_size),
                  total_items |-> Len(entries),
                  has_more |-> (start_idx + page_size) < Len(entries)]

NoCall == [op |-> "none"]

\* The pages of one listing requested in turn: page 1 starts a walk, the next
\* page of the same listing continues it, any other call ends it.
WalkAfter(dir_path, page_size, page, ret) ==
    IF ret.error # "none" THEN NoCall
    ELSE IF page = 1
    THEN [op |-> "walk", dir_path |-> dir_path, page_size |-> page_size, page |-> 1,
          items |-> ret.items, has_more |-> ret.has_more]
    ELSE IF walk.op = "walk" /\ walk.dir_path = dir_path /\ walk.page_size = page_size
            /\ walk.page + 1 = page
    THEN [op |-> "walk", dir_path |-> dir_path, page_size |-> page_size, page |-> page,
          items |-> walk.items \o ret.items, has_more |-> ret.has_more]
    ELSE NoCall

Expand(dir_path, page_size, page) ==
    \E ret \in {ExpandDirectory(present, dirOrder, gitignore_patterns, dir_path, WorkspaceDir,
                                page_size, page)} :
        /\ exp' = [op |-> "expand", dir_path |-> dir_path, page_size |-> page_size,
                   page |-> page, ret |-> ret]
        /\ walk' = WalkAfter(dir_path, page_size, page, ret)
        /\ UNCHANGED <<present, dirOrder, gitignore_patterns, scan, dirMtime, idxVars, thrVars,
                       cacheVars, ctxVars>>

NextExpand ==
    \E c \in ExpandCalls : Expand(c[1], c[2], c[3])

----------------------------------------------------------------------------
(* WorkspaceManager._parallel_scan *)

\* the workspace_dir arguments, as paths from "/": "/w" and "/w/b"
ScanRoots == { <<nW>>, <<nW, nB>> }

\* os.path.relpath(entry.path, workspace_dir)
Relpath(path, root) == JoinNames(SubSeq(path, Len(root) + 1, Len(path)))

\* entry.path
EntryPath(path) == <<"/">> \o JoinNames(path)

\* the test on a directory entry that skips hidden directories only
ScanDescendsAnyFolder(fs, dir, name) ==
    IsDir(fs, Append(dir, name)) /\ ~IsHidden(name)

\* entry.is_dir() and not entry.name.startswith(".") and entry.name not in SKIP_FOLDERS
ScanDescends(fs, dir, name) ==
    IsDir(fs, Append(dir, name)) /\ ~IsHidden(name) /\ name \notin SKIP_FOLDERS

\* entry.is_file() and not entry.name.startswith(".") and not entry.name.endswith(SKIP_EXTENSIONS)
ScanTakesFile(fs, dir, name) ==
    IsFile(fs, Append(dir, name)) /\ ~IsHidden(name) /\ ~HasSkipExtension(name)

\* the (entry.path, rel_path) appended for a file, if _should_ignore lets it pass
ScanFile(patterns, root, path) ==
    IF ShouldIgnore(patterns, Relpath(path, root)) THEN <<>>
    ELSE << <<EntryPath(path), Relpath(path, root)>> >>

RECURSIVE ProcessEntries(_, _, _, _, _, _)
RECURSIVE ProcessDirectory(_, _, _, _, _)
\* process_directory(dir_path): the loop over os.scandir(dir_path)
ProcessEntries(fs, order, patterns, root, dir, names) ==
    IF names = <<>> THEN <<>>
    ELSE (IF ScanTakesFile(fs, dir, names[1])
          THEN ScanFile(patterns, root, Append(dir, names[1]))
          ELSE IF ScanDescends(fs, dir, names[1])
          THEN ProcessDirectory(fs, order, patterns, root, Append(dir, names[1]))
          ELSE <<>>)
         \o ProcessEntries(fs, order, patterns, root, dir, Tail(names))

ProcessDirectory(fs, order, patterns, root, dir) ==
    ProcessEntries(fs, order, patterns, root, dir, Scandir(fs, order, dir))

RECURSIVE Flatten(_)
Flatten(lists) == IF lists = <<>> THEN <<>> ELSE lists[1] \o Flatten(Tail(lists))

\* _parallel_scan(workspace_dir): the files of the root, then those of each
\* subdirectory in the order of executor.map
ParallelScanResult(fs, order, patterns, root) ==
    LET names == Scandir(fs, order, root)
        subdirs == SelectSeqBy(names, [i \in DOMAIN names |-> ScanDescends(fs, root, names[i])])
        taken == SelectSeqBy(names, [i \in DOMAIN names |->
                                        ~ScanDescends(fs, root, names[i])
                                        /\ ScanTakesFile(fs, root, names[i])])
        files_ == Flatten([i \in DOMAIN taken |-> ScanFile(patterns, root, Append(root, taken[i]))])
    IN  files_ \o Flatten([i \in DOMAIN subdirs |->
                              ProcessDirectory(fs, order, patterns, root, Append(root, subdirs[i]))])

ParallelScan(root) ==
    /\ scan' = [op |-> "scan", root |-> root,
                ret |-> ParallelScanResult(present, dirOrder, gitignore_patterns, root)]
    /\ UNCHANGED <<present, dirOrder, gitignore_patterns, exp, walk, dirMtime, idxVars, thrVars,
                   cacheVars, ctxVars>>

NextScan == \E root \in ScanRoots : ParallelScan(root)

----------------------------------------------------------------------------
(* WorkspaceManager.get_workspace_structure, get_directory_structure *)

\* the number of counted files above which only the top level is listed
LAZY_LOAD_THRESHOLD == 6

\* depth=float("inf"): a depth that no recursion uses up
Infinity == -1

\* the workspace_dir arguments: "/w", "/w/b", "/zz" (missing), "/w/a" (a file)
StructureDirs ==
    { WorkspaceDir, WorkspaceDir \o <<"/">> \o nB, <<"/", "z", "z">>,
      WorkspaceDir \o <<"/">> \o nA }

\* whether the loop over os.walk(workspace_dir) counts the file
WalkCounts(fs, patterns, root, dir, name) ==
    /\ IsFile(fs, Append(dir, name))
    /\ ~IsHidden(name)
    /\ ~HasSkipExtension(name)
    /\ ~ShouldIgnore(patterns, Relpath(Append(dir, name), root))

RECURSIVE WalkNames(_, _, _, _, _)
RECURSIVE WalkDirectory(_, _, _, _)
\* the files counted under the names of dir: os.walk descends into the
\* directories that dirs[:] keeps
WalkNames(fs, patterns, root, dir, names) ==
    IF names = <<>> THEN 0
    ELSE (IF WalkCounts(fs, patterns, root, dir, names[1]) THEN 1
          ELSE IF ScanDescends(fs, dir, names[1])
          THEN WalkDirectory(fs, patterns, root, Append(dir, names[1]))
          ELSE 0)
         + WalkNames(fs, patterns, root, dir, Tail(names))

WalkDirectory(fs, patterns, root, dir) ==
    WalkNames(fs, patterns, root, dir, SortedNames(ChildNames(fs, dir)))

\* total_files: os.walk yields nothing for a path that is no directory
TotalFiles(fs, patterns, target) ==
    IF target = <<>> \/ ~IsDir(fs, target[1]) THEN 0
    ELSE WalkDirectory(fs, patterns, target[1], target[1])

\* depth > 0 and depth > 1, depth - 1
DepthAbove(depth, n) == depth = Infinity \/ depth > n
DepthLess(depth) == IF depth = Infinity THEN Infinity ELSE depth - 1

\* whether the loop of get_directory_structure appends the entry
StructureLists(fs, patterns, dir, name, depth) ==
    /\ ~(IsHidden(name) \/ (IsDir(fs, Append(dir, name)) /\ name \in SKIP_FOLDERS))
    /\ ~ShouldIgnore(patterns, name)
    /\ \/ IsFile(fs, Append(dir, name)) /\ ~HasSkipExtension(name)
       \/ IsDir(fs, Append(dir, name)) /\ DepthAbove(depth, 0)

RECURSIVE DirectoryStructure(_, _, _, _, _)
\* get_directory_structure(dir_path, depth) on the file or directory that
\* dir_path names (target); os.scandir raises OSError on a missing path and
\* on a file, and the except returns []
DirectoryStructure(fs, order, patterns, target, depth) ==
    IF target = <<>> \/ ~IsDir(fs, target[1]) THEN <<>>
    ELSE LET dir == target[1]
             names == Scandir(fs, order, dir)
             listed == SelectSeqBy(names, [i \in DOMAIN names |->
                                              StructureLists(fs, patterns, dir, names[i], depth)])
             Entry(name) ==
                 IF IsFile(fs, Append(dir, name))
                 THEN [type |-> "file", path |-> name, size |-> 1, has_children |-> FALSE,
                       children |-> <<>>]
                 ELSE LET children ==
                              IF DepthAbove(depth, 1)
                              THEN DirectoryStructure(fs, order, patterns,
                                                      <<Append(dir, name)>>, DepthLess(depth))
                              ELSE <<>>
                      IN  [type |-> "directory", path |-> name, size |-> 0,
                           has_children |-> children # <<>>
                                               \/ ChildNames(fs, Append(dir, name)) # {},
                           children |-> children]
         IN  SortEntries([i \in DOMAIN listed |-> Entry(listed[i])])

\* the depth of the listing, with the comparison the other way round
ListingDepthReversed(total_files) == IF total_files > LAZY_LOAD_THRESHOLD THEN Infinity ELSE 1

\* depth=1 if total_files > LAZY_LOAD_THRESHOLD, else depth=float("inf")
ListingDepth(total_files) == IF total_files > LAZY_LOAD_THRESHOLD THEN 1 ELSE Infinity

\* get_workspace_structure(workspace_dir): what it returns and the structure
\* cache after it.  On a missing path os.path.getmtime raises OSError, which
\* the except turns into [].
WorkspaceStructure(fs, order, patterns, mtimes, cache, workspace_dir) ==
    LET target == Resolve(fs, workspace_dir)
    IN  IF target = <<>>
        THEN [ret |-> <<>>, cache |-> cache, error |-> "none"]
        ELSE IF workspace_dir \in DOMAIN cache
                /\ GetMtime(mtimes, target[1]) = cache[workspace_dir].mtime
        THEN [ret |-> cache[workspace_dir].structure, cache |-> cache, error |-> "none"]
        ELSE LET total_files == TotalFiles(fs, patterns, target)
                 structure == DirectoryStructure(fs, order, patterns, target,
                                                 ListingDepth(total_files))
                 entry == [structure |-> structure, mtime |-> GetMtime(mtimes, target[1])]
             IN  [ret |-> structure,
                  cache |-> [p \in DOMAIN cache \cup {workspace_dir} |->
                                IF p = workspace_dir THEN entry ELSE cache[p]],
                  error |-> "none"]

MaxTouches == 2

\* the files another process creates and removes: the optional files of the
\* workspace root, and x.py in the subdirectory b
ToggleFiles == FsFilesOptional \cup { <<nW, nB, nXPy>> }

\* Another process creates the file, or removes it: the modification time of
\* its directory moves.
ToggleFile(path) ==
    /\ NextStamp(dirMtime) <= MaxTouches
    /\ present' = IF path \in present THEN present \ {path} ELSE present \cup {path}
    /\ dirMtime' = Touch(dirMtime, present, present')
    /\ UNCHANGED <<dirOrder, gitignore_patterns, exp, walk, scan, idxVars, thrVars, cacheVars,
                   ctxVars>>

GetWorkspaceStructure(workspace_dir) ==
    \E r \in {WorkspaceStructure(present, dirOrder, gitignore_patterns, dirMtime,
                                 structure_cache, workspace_dir)} :
        /\ structure_cache' = r.cache
        /\ struct' = [op |-> "structure", workspace_dir |-> workspace_dir, ret |-> r.ret,
                      error |-> r.error]
        /\ UNCHANGED <<idxVars, thrVars, cacheVars, scanVars, sel, pack, merge, trunc, reader, deleted>>

----------------------------------------------------------------------------
(* app.py: delete_workspace, with WORKSPACE_ROOT the directory "/w" *)

nImported == <<".", "i", "m", "p", "o", "r", "t", "e", "d">>

\* the marker file of an imported workspace, in the directory /w/A
ImportedMarker == <<nW, nUpperA, nImported>>

\* the workspace_id arguments: "b", "A", "zz" (missing), "a" (a file), "../w2",
\* "../o", "/o", "../zz" (missing)
WorkspaceIds ==
    { nB, nUpperA, <<"z", "z">>, nA, <<".", ".", "/">> \o nW2, <<".", ".", "/">> \o nO,
      <<"/">> \o nO, <<".", ".", "/", "z", "z">> }

\* os.path.join(a, b)
OsPathJoin(a, b) == IF IsAbs(b) THEN b ELSE PathJoin(a, b)

\* the directory and everything below it
Below(fs, dir) == { path \in fs : Len(path) >= Len(dir) /\ SubSeq(path, 1, Len(dir)) = dir }

\* the message of the Exception that leaves delete_workspace, as the parts that
\* ": " joins: every raise inside the try is wrapped by the outer except
FailedToDelete(parts) == <<"Failed to delete workspace">> \o parts

\* os.path.abspath(workspace_path).startswith(os.path.abspath(WORKSPACE_ROOT))
InsideRoot(workspace_path) == StartsWith(Abspath(workspace_path), Abspath(WorkspaceDir))

\* delete_workspace(workspace_id): the file system after the call, whether it
\* returned True, and the message of the Exception if it raised.  The file
\* system has no symbolic links, so os.unlink(workspace_path) of the imported
\* branch is called on a directory and raises.
DeleteWorkspaceOutcome(fs, workspace_id) ==
    LET workspace_path == OsPathJoin(WorkspaceDir, workspace_id)
        target == Resolve(fs, workspace_path)
        marker == Resolve(fs, PathJoin(workspace_path, nImported))
    IN  IF ~InsideRoot(workspace_path)
        THEN [fs |-> fs, ret |-> FALSE, message |-> FailedToDelete(<<"Invalid workspace path">>)]
        ELSE IF marker # <<>>
        THEN [fs |-> fs \ {marker[1]}, ret |-> FALSE,
              message |-> FailedToDelete(<<"Is a directory">>)]
        ELSE IF target = <<>>
        THEN [fs |-> fs, ret |-> TRUE, message |-> <<>>]
        ELSE IF ~IsDir(fs, target[1])
        THEN [fs |-> fs, ret |-> FALSE,
              message |-> FailedToDelete(<<"Failed to delete workspace directory",
                                           "Not a directory">>)]
        ELSE [fs |-> fs \ Below(fs, target[1]), ret |-> TRUE, message |-> <<>>]

DeleteWorkspace(workspace_id) ==
    \E r \in {DeleteWorkspaceOutcome(present, workspace_id)} :
        /\ present' = r.fs
        /\ dirMtime' = Touch(dirMtime, present, r.fs)
        /\ deleted' = [op |-> "delete", workspace_id |-> workspace_id, before |-> present,
                       ret |-> r.ret, message |-> r.message]
        /\ UNCHANGED <<dirOrder, gitignore_patterns, exp, walk, scan, idxVars, thrVars,
                       cacheVars, sel, pack, merge, trunc, reader, structure_cache, struct>>

NextDelete == \E workspace_id \in WorkspaceIds : DeleteWorkspace(workspace_id)

----------------------------------------------------------------------------
(* WorkspaceManager.get_workspace_files: _score_files, _load_file_content, *)
(* _estimate_tokens, _truncate_content_for_context                         *)

\* max_tokens of _truncate_content_for_context
MAX_TOKENS == 60000

\* the slice [:10] of the scored files, scaled down
TOP_FILES == 2

\* the endings that make a file a primary file type
PRIMARY_EXTENSIONS ==
    { <<".", "p", "y">>, <<".", "j", "s">>, <<".", "h", "t", "m", "l">>, <<".", "c", "s", "s">>,
      <<".", "j", "s", "o", "n">>, <<".", "y", "m", "l">>, <<".", "y", "a", "m", "l">> }

\* the workspace directory, and a path at which there is no directory
SelectWorkspaces == {"w", "gone"}

\* the queries: none, "AB", "q" and "q ab"
SelectQueries ==
    { <<>>, <<"A", "B">>, <<"q">>, <<"q", " ", "a", "b">> }

\* the calls: every query on the workspace, one of them also with the other
\* order of os.scandir, and two calls on the path that is no directory
SelectCalls ==
    { <<"w", "forward", query>> : query \in SelectQueries }
    \cup { <<"w", "reverse", <<"q">> >>, <<"gone", "forward", <<>> >>,
           <<"gone", "forward", <<"q">> >> }

\* the files of the workspace in the order _parallel_scan returns them: those
\* of the root, then those of the subdirectory, each in the order of os.scandir
ScanOrder(order) ==
    IF order = "forward"
    THEN <<"a.py", "b.py", "s.css", "d/ab.md", "d/n.md", "d/m.md", "d/e.py">>
    ELSE <<"s.css", "b.py", "a.py", "d/n.md", "d/m.md", "d/e.py", "d/ab.md">>

\* _parallel_scan(workspace_dir): os.scandir raises OSError on a path that is
\* not a directory, and the result is then the empty list
AllFiles(workspace, order) ==
    LET paths == ScanOrder(order)
    IN  IF workspace = "w"
        THEN SelectSeqBy(paths, [i \in DOMAIN paths |-> files[paths[i]].exists])
        ELSE <<>>

RECURSIVE SplitWordsFrom(_, _, _)
\* str.split(): the maximal runs without a blank
SplitWordsFrom(s, i, cur) ==
    IF i > Len(s) THEN (IF cur = <<>> THEN <<>> ELSE <<cur>>)
    ELSE IF s[i] = " " THEN (IF cur = <<>> THEN <<>> ELSE <<cur>>) \o SplitWordsFrom(s, i + 1, <<>>)
    ELSE SplitWordsFrom(s, i + 1, Append(cur, s[i]))

\* query.lower().split()
QueryTerms(query) == SplitWordsFrom(Lower(query), 1, <<>>)

\* term in text
Contains(text, term) ==
    \E i \in 0..(Len(text) - Len(term)) : SubSeq(text, i + 1, i + Len(term)) = term

\* any(term.lower() in text.lower() for term in query.lower().split())
AnyTermIn(terms, text) == \E i \in DOMAIN terms : Contains(Lower(text), Lower(terms[i]))

RECURSIVE JoinWords(_)
\* the characters of a text given by its lexemes
JoinWords(lexemes) ==
    IF lexemes = <<>> THEN <<>>
    ELSE IF Len(lexemes) = 1 THEN lexemes[1]
    ELSE lexemes[1] \o <<" ">> \o JoinWords(Tail(lexemes))

\* mm.read(4096).decode(...): the start of the file
Preview(id) == JoinWords(ContentInfo[id].text[1])

\* os.path.dirname(rel_path) == ""
InRoot(rel) == \A i \in DOMAIN rel : rel[i] # "/"

\* rel_path.endswith((".py", ".js", ...))
IsPrimary(rel) == \E e \in PRIMARY_EXTENSIONS : EndsWith(rel, e)

\* the bonus for indexed symbols.  _score_files looks the scanner's entry.path
\* up in _file_index, whose keys are the workspace-relative paths that
\* get_workspace_context passes to _analyze_dependencies: the lookup never hits.
SymbolScore(path, terms) == 0

\* the score _score_files gives a file with that relative path and that content
ScoreFile(path, id, terms) ==
    LET rel == WorkspaceFiles[path].rel
    IN  (IF AnyTermIn(terms, rel) THEN 5 ELSE 0)
        + (IF AnyTermIn(terms, Preview(id)) THEN 3 ELSE 0)
        + (IF InRoot(rel) THEN 2 ELSE 0)
        + (IF IsPrimary(rel) THEN 1 ELSE 0)
        + SymbolScore(path, terms)

\* the scores of the files and queries of the model, computed once
ScoreTable ==
    [query \in SelectQueries |->
        [path \in WorkspacePaths |->
            [id \in DOMAIN ContentInfo |-> ScoreFile(path, id, QueryTerms(query))]]]

\* _score_files(files, query): the files with a positive score, in the order given
ScoreFiles(all_files, query) ==
    LET scored == [i \in DOMAIN all_files |->
                      [path |-> all_files[i],
                       score |-> ScoreTable[query][all_files[i]][files[all_files[i]].content]]]
    IN  SelectSeqBy(scored, [i \in DOMAIN scored |-> scored[i].score > 0])

RECURSIVE InsertScored(_, _)
\* x goes behind every item whose score is not lower
InsertScored(sorted, x) ==
    IF sorted = <<>> THEN <<x>>
    ELSE IF sorted[1].score < x.score THEN <<x>> \o sorted
    ELSE <<sorted[1]>> \o InsertScored(Tail(sorted), x)

RECURSIVE SortScored(_)
\* sorted(scored_files, key=lambda x: x[2], reverse=True): stable
SortScored(scored) ==
    IF scored = <<>> THEN <<>>
    ELSE InsertScored(SortScored(SubSeq(scored, 1, Len(scored) - 1)), scored[Len(scored)])

\* sorted(...)[:10]
TopFiles(scored) == Prefix(SortScored(scored), TOP_FILES)

\* _estimate_tokens on a text of that many characters
EstimateTokens(chars) == chars \div 4

RECURSIVE SumBetween(_, _, _)
\* s[lo] + ... + s[hi]
SumBetween(s, lo, hi) ==
    IF lo > hi THEN 0
    ELSE IF lo = hi THEN s[lo]
    ELSE SumBetween(s, lo, (lo + hi) \div 2) + SumBetween(s, (lo + hi) \div 2 + 1, hi)

\* len("\n".join(lines)), the lines given by their lengths
JoinLen(lines) == IF lines = <<>> THEN 0 ELSE SumBetween(lines, 1, Len(lines)) + Len(lines) - 1

RECURSIVE Digits(_)
\* len(str(n))
Digits(n) == IF n < 0 THEN 1 + Digits(0 - n) ELSE IF n < 10 THEN 1 ELSE 1 + Digits(n \div 10)

\* len(f"\n... truncated {n} lines ...\n")
MarkerLen(n) == 26 + Digits(n)

\* s[::step]
Stride(s, step) == [i \in 1..((Len(s) + step - 1) \div step) |-> s[(i - 1) * step + 1]]

\* lines[-k:] for k > 0
LastLines(lines, k) == PySlice(lines, 0 - k, Len(lines))

RECURSIVE TruncateLoop(_, _, _)
\* the while loop of _truncate_content_for_context (keep_start = keep_end = keep)
TruncateLoop(lines, keep, remaining_lines) ==
    LET middle_lines == PySlice(lines, keep, Len(lines) - keep)
        step == Len(middle_lines) \div remaining_lines
        middle == IF middle_lines = <<>> THEN <<>>
                  ELSE IF step > 1
                  THEN <<MarkerLen(step)>> \o Prefix(Stride(middle_lines, step), remaining_lines)
                       \o <<MarkerLen(step)>>
                  ELSE Prefix(middle_lines, remaining_lines)
        truncated == PySlice(lines, 0, keep) \o middle \o LastLines(lines, keep)
    IN  IF EstimateTokens(JoinLen(truncated)) <= MAX_TOKENS THEN truncated
        ELSE IF keep > 10
        THEN TruncateLoop(lines, keep - 10,
                          IF remaining_lines - 20 > 20 THEN remaining_lines - 20 ELSE 20)
        ELSE PySlice(lines, 0, 10) \o <<MarkerLen(Len(lines) - 20)>> \o LastLines(lines, 10)

\* _truncate_content_for_context(content): what is returned, as the lengths of
\* the pieces joined by line breaks
TruncateContent(lines) ==
    IF EstimateTokens(JoinLen(lines)) <= MAX_TOKENS THEN lines
    ELSE TruncateLoop(lines, 50, 100)

\* the lines of what _get_file_content(file_path) returned (at most one chunk)
TextLines(pieces) ==
    IF pieces = <<>> THEN <<>>
    ELSE ContentInfo[pieces[1].content].lines[IF pieces[1].chunk = -1 THEN 1 ELSE pieces[1].chunk + 1]

\* _truncate_content_for_context on each text a file can yield, computed once
TruncateTable ==
    [id \in DOMAIN ContentInfo |-> TruncateContent(ContentInfo[id].lines[1])]

RECURSIVE LoadFiles(_, _)
\* _get_file_content(file_path) on each path in turn: the caches and the index
\* afterwards, and what each call returned or raised
LoadFiles(st, paths) ==
    IF paths = <<>> THEN [st |-> st, loaded |-> <<>>]
    ELSE LET r == GetFileContent(st, paths[1], 0, 1)
             after == [content_cache |-> r.content_cache, cache_size |-> r.cache_size,
                       chunk_cache |-> r.chunk_cache, index |-> r.index]
             rest == LoadFiles(after, Tail(paths))
         IN  [st |-> rest.st,
              loaded |-> <<[path |-> paths[1], ret |-> r.ret, raised |-> r.raised,
                            indexed |-> r.indexed,
                            stored |-> paths[1] \in DocPaths(st.index.documents),
                            hadIdf |-> DOMAIN st.index.idf_cache # {}]>> \o rest.loaded]

\* files_content after the loop over what the loads gave, taken in the order
\* of paths: a load that raised or returned the empty text adds nothing
FilesContent(paths, loaded) ==
    LET of == [i \in DOMAIN paths |-> loaded[CHOOSE j \in DOMAIN loaded : loaded[j].path = paths[i]]]
        entries == [i \in DOMAIN paths |->
                       [path |-> paths[i],
                        value |-> IF of[i].ret = <<>> THEN <<>>
                                  ELSE TruncateTable[of[i].ret[1].content]]]
    IN  SelectSeqBy(entries, [i \in DOMAIN paths |->
                                 of[i].raised = "none" /\ JoinLen(TextLines(of[i].ret)) > 0])

\* os.path.dirname(rel_path) == "" for the files of the model, computed once
RootFiles == { path \in WorkspacePaths : InRoot(WorkspaceFiles[path].rel) }

\* the files the loop without a query reads: those of the root and the small ones
DefaultFiles(all_files) ==
    SelectSeqBy(all_files, [i \in DOMAIN all_files |->
                               all_files[i] \in RootFiles
                               \/ ContentInfo[files[all_files[i]].content].size < LARGE_FILE_THRESHOLD])

\* the orders in which the loads of n files can take place
LoadOrders(n) == { p \in [1..n -> 1..n] : \A i, j \in 1..n : p[i] = p[j] => i = j }

\* get_workspace_files(workspace_dir, query).  Without a query the files are
\* read one after the other; with a query the loads of the top files run in a
\* thread pool, in the order loadOrder, and their results are taken in the
\* order of the top files.
GetWorkspaceFiles(workspace, order, query) ==
    LET all_files == AllFiles(workspace, order)
        scored == IF query = <<>> THEN <<>> ELSE ScoreFiles(all_files, query)
        top_files == TopFiles(scored)
        chosen == IF query = <<>> THEN DefaultFiles(all_files)
                  ELSE [i \in DOMAIN top_files |-> top_files[i].path]
    IN  /\ cache_size <= MaxTracked
        /\ \E loadOrder \in (IF query = <<>> THEN {[i \in DOMAIN chosen |-> i]}
                               ELSE LoadOrders(Len(chosen))) :
           \E r \in {LoadFiles(CacheState, [i \in DOMAIN chosen |-> chosen[loadOrder[i]]])} :
              LET adds == SelectSeqBy(r.loaded, [i \in DOMAIN r.loaded |-> r.loaded[i].indexed])
              IN  /\ content_cache' = r.st.content_cache
                  /\ cache_size' = r.st.cache_size
                  /\ chunk_cache' = r.st.chunk_cache
                  /\ documents' = r.st.index.documents
                  /\ total_docs' = r.st.index.total_docs
                  /\ avg_doc_length' = r.st.index.avg_doc_length
                  /\ idf_cache' = r.st.index.idf_cache
                  /\ IF adds # <<>>
                     THEN /\ lastOp' = [op |-> "add", stored |-> adds[Len(adds)].stored,
                                        hadIdf |-> adds[Len(adds)].hadIdf]
                          /\ nSearch' = 0
                          /\ result' = NoResult
                     ELSE UNCHANGED <<lastOp, nSearch, result>>
                  /\ sel' = [op |-> "select", workspace |-> workspace, query |-> query,
                             all_files |-> all_files, scored |-> scored, chosen |-> chosen,
                             loadOrder |-> loadOrder, loaded |-> r.loaded,
                             ret |-> FilesContent(chosen, r.loaded), error |-> "none"]
                  /\ call' = [op |-> "select"]
        /\ UNCHANGED <<files, nWrites, thrVars, scanVars, pack, merge, trunc, reader, structure_cache, struct, deleted>>

NextSelect ==
    \/ \E c \in SelectCalls : GetWorkspaceFiles(c[1], c[2], c[3])
    \/ ClearCacheAll

----------------------------------------------------------------------------
(* prepareChunks (chunk) as the specification of the engine describes it:   *)
(* files sorted by size, packed greedily under the available budget, a file *)
(* too large for a chunk split at line boundaries into labelled parts.      *)

\* what one file adds to a chunk besides its tokens
PER_FILE_HEADER_OVERHEAD == 1

\* the safety buffer kept free in every chunk
SAFETY_BUFFER == 1

\* maxTokens ranges over 0..MaxChunkTokens
MaxChunkTokens == 7

\* the estimates for the fixed preamble
ReservedTokens == {0, 2}

\* The files a file map can hold: the size in bytes and the estimated tokens
\* of each line.  (The token estimate of a text is the sum over its lines; no
\* content in a file map is empty.)
ChunkFileInfo ==
    [path \in {"t", "u", "v", "x", "y"} |->
        CASE path = "t" -> [size |-> 1, lines |-> <<1>>]
          [] path = "u" -> [size |-> 2, lines |-> <<1, 1>>]
          [] path = "v" -> [size |-> 3, lines |-> <<2>>]
          [] path = "x" -> [size |-> 5, lines |-> <<2, 1, 1>>]
          [] path = "y" -> [size |-> 9, lines |-> <<3, 1, 4>>] ]

ChunkPaths == DOMAIN ChunkFileInfo

\* the estimated tokens of a whole file
FileTokens(path) == SumSeq(ChunkFileInfo[path].lines)

RECURSIVE SortBySize(_)
\* the files in ascending order of size
SortBySize(paths) ==
    IF paths = {} THEN <<>>
    ELSE LET least == CHOOSE p \in paths :
                          \A q \in paths : ChunkFileInfo[p].size <= ChunkFileInfo[q].size
         IN  <<least>> \o SortBySize(paths \ {least})

\* budget minus the estimate for the preamble minus the safety buffer
AvailableTokens(maxTokens, reserved) == maxTokens - reserved - SAFETY_BUFFER

RECURSIVE SplitLines(_, _, _, _)
\* the lines of an oversized file cut into parts: a part takes lines while it
\* stays within the budget, and at least one line
SplitLines(lines, part, running, available) ==
    IF lines = <<>> THEN (IF part = <<>> THEN <<>> ELSE <<part>>)
    ELSE IF part = <<>> \/ running + lines[1] + PER_FILE_HEADER_OVERHEAD <= available
    THEN SplitLines(Tail(lines), Append(part, lines[1]), running + lines[1], available)
    ELSE <<part>> \o SplitLines(lines, <<>>, 0, available)

\* the chunks of an oversized file: one per part, labelled "<path> (part i/n)"
SplitFile(path, available) ==
    LET parts == SplitLines(ChunkFileInfo[path].lines, <<>>, 0, available)
    IN  [i \in DOMAIN parts |->
            << [path |-> path, part |-> i, of |-> Len(parts), lines |-> parts[i]] >>]

\* a whole file as the entry of a chunk
WholeEntry(path) == [path |-> path, part |-> 0, of |-> 0, lines |-> ChunkFileInfo[path].lines]

\* the packing test that leaves the header of the file out
FitsWithoutHeader(running, path, available) ==
    running + FileTokens(path) <= available

\* runningTokens + fileTokens + perFileHeaderOverhead <= availableTokens
Fits(running, path, available) ==
    running + FileTokens(path) + PER_FILE_HEADER_OVERHEAD <= available

RECURSIVE PackFiles(_, _, _, _)
\* the greedy packing of the sorted files: current is the chunk being filled
PackFiles(sorted, current, running, available) ==
    LET closed == IF current = <<>> THEN <<>> ELSE <<current>>
    IN  IF sorted = <<>> THEN closed
        ELSE IF ~Fits(0, sorted[1], available)
        THEN closed \o SplitFile(sorted[1], available) \o PackFiles(Tail(sorted), <<>>, 0, available)
        ELSE IF Fits(running, sorted[1], available)
        THEN PackFiles(Tail(sorted), Append(current, WholeEntry(sorted[1])),
                       running + FileTokens(sorted[1]) + PER_FILE_HEADER_OVERHEAD, available)
        ELSE closed \o PackFiles(sorted, <<>>, 0, available)

\* the arguments of a call that is about to be made
ChunkInputs ==
    { [op |-> "input", filesMap |-> filesMap, maxTokens |-> maxTokens, reserved |-> reserved,
       ret |-> <<>>] :
         filesMap \in SUBSET ChunkPaths, maxTokens \in 0..MaxChunkTokens,
         reserved \in ReservedTokens }

\* prepareChunks(filesMap, maxTokens, systemPromptForBudgeting)
PrepareChunks ==
    /\ pack.op = "input"
    /\ pack' = [pack EXCEPT !.op = "prepare",
                            !.ret = PackFiles(SortBySize(pack.filesMap), <<>>, 0,
                                              AvailableTokens(pack.maxTokens, pack.reserved))]
    /\ UNCHANGED <<idxVars, thrVars, cacheVars, scanVars, sel, merge, trunc, reader, structure_cache, struct, deleted>>

NextChunks == PrepareChunks

----------------------------------------------------------------------------
(* mergeResults as the specification of the engine describes it: the        *)
(* per-chunk results arrive in the order in which the chunks complete and   *)
(* are merged in the caller-supplied chunk order; the first occurrence of a *)
(* file path wins and the operation lists are concatenated.                 *)

\* at most that many chunks are dispatched
MaxChunks == 3

\* what the result of one chunk can hold: file paths, and a number of operations
ResultFiles == { <<>>, <<"f">>, <<"g", "f">> }
ResultOperations == {0, 1}

\* the result of chunk i: each file and each operation carries the chunk it comes from
ChunkResult(i, paths, nOps) ==
    [index |-> i,
     files |-> [k \in DOMAIN paths |-> [path |-> paths[k], from |-> i]],
     operations |-> [k \in 1..nOps |-> [from |-> i, op |-> k]]]

RECURSIVE InsertByIndex(_, _)
InsertByIndex(sorted, r) ==
    IF sorted = <<>> THEN <<r>>
    ELSE IF r.index < sorted[1].index THEN <<r>> \o sorted
    ELSE <<sorted[1]>> \o InsertByIndex(Tail(sorted), r)

RECURSIVE SortByIndex(_)
SortByIndex(rs) ==
    IF rs = <<>> THEN <<>> ELSE InsertByIndex(SortByIndex(Tail(rs)), rs[1])

\* the results taken in the order in which the chunks completed
ChunkOrderAsCompleted(arrived) == arrived

\* the results taken in the caller-supplied chunk order (the chunk index)
ChunkOrder(arrived) == SortByIndex(arrived)

RECURSIVE MergeFrom(_, _)
\* one result after the other: a file path already present is dropped, the
\* operations are appended
MergeFrom(acc, rs) ==
    IF rs = <<>> THEN acc
    ELSE LET seen == { acc.files[k].path : k \in DOMAIN acc.files }
             new == SelectSeqBy(rs[1].files,
                                [k \in DOMAIN rs[1].files |-> rs[1].files[k].path \notin seen])
         IN  MergeFrom([files |-> acc.files \o new,
                        operations |-> acc.operations \o rs[1].operations], Tail(rs))

\* mergeResults(perChunkResults) -> singleResult
MergeOutcome(arrived) == MergeFrom([files |-> <<>>, operations |-> <<>>], ChunkOrder(arrived))

\* the results of n chunks
ResultsOf(n) ==
    { [i \in 1..n |-> ChunkResult(i, c[i][1], c[i][2])] :
         c \in [1..n -> ResultFiles \X ResultOperations] }

\* the chunks that were dispatched, none of them complete
MergeInputs ==
    { [op |-> "dispatched", results |-> results, arrived |-> <<>>,
       ret |-> [files |-> <<>>, operations |-> <<>>]] :
         results \in UNION { ResultsOf(n) : n \in 1..MaxChunks } }

\* chunk i completes: its result arrives
CompleteChunk(i) ==
    /\ merge.op = "dispatched"
    /\ i \in DOMAIN merge.results
    /\ \A k \in DOMAIN merge.arrived : merge.arrived[k].index # i
    /\ merge' = [merge EXCEPT !.arrived = Append(merge.arrived, merge.results[i])]
    /\ UNCHANGED <<idxVars, thrVars, cacheVars, scanVars, sel, pack, trunc, reader, structure_cache, struct, deleted>>

\* every chunk is complete: the results are merged
MergeResults ==
    /\ merge.op = "dispatched"
    /\ Len(merge.arrived) = Len(merge.results)
    /\ merge' = [merge EXCEPT !.op = "merge", !.ret = MergeOutcome(merge.arrived)]
    /\ UNCHANGED <<idxVars, thrVars, cacheVars, scanVars, sel, pack, trunc, reader, structure_cache, struct, deleted>>

NextMerge ==
    \/ \E i \in 1..MaxChunks : CompleteChunk(i)
    \/ MergeResults

----------------------------------------------------------------------------
(* WorkspaceManager._truncate_content_for_context, one round of its loop   *)
(* at a time.  The content is given by the lengths of its lines; what is   *)
(* built from it is a list of pieces, each a line of the content or a      *)
(* marker f"\n... truncated {n} lines ...\n".                              *)

MaxLines == 420

\* the numbers of lines of the contents
LineCounts == {0, 1, 9, 10, 19, 20, 21, 60, 99, 100, 101, 150, 199, 200, 250, 299, 300, 301, MaxLines}

\* the lengths of the lines of a content (all its lines are as long)
LineLengths == {0, 7, 39}

\* the max_tokens arguments
Budgets == {0, 100, 500, 900, 1300, 1700, 2100, MAX_TOKENS}

\* content.splitlines(): line i of the content
LinePiece(i) == [kind |-> "line", no |-> i]

\* f"\n... truncated {n} lines ...\n"
MarkerPiece(n) == [kind |-> "marker", no |-> n]

\* content.splitlines()
ContentLines(lines) == [i \in DOMAIN lines |-> LinePiece(i)]

\* the lengths of the pieces
PieceLens(lines, pieces) ==
    [k \in DOMAIN pieces |->
        IF pieces[k].kind = "line" THEN lines[pieces[k].no] ELSE MarkerLen(pieces[k].no)]

\* one pass of the body of the while loop: the list truncated
TruncateRound(all, keep_start, keep_end, remaining_lines) ==
    LET middle_lines == PySlice(all, keep_start, Len(all) - keep_end)
        step == Len(middle_lines) \div remaining_lines
        middle == IF middle_lines = <<>> THEN <<>>
                  ELSE IF step > 1
                  THEN <<MarkerPiece(step)>> \o Prefix(Stride(middle_lines, step), remaining_lines)
                       \o <<MarkerPiece(step)>>
                  ELSE Prefix(middle_lines, remaining_lines)
    IN  PySlice(all, 0, keep_start) \o middle \o LastLines(all, keep_end)

\* the minimal version returned when nothing can be reduced further
MinimalVersion(all) ==
    PySlice(all, 0, 10) \o <<MarkerPiece(Len(all) - 20)>> \o LastLines(all, 10)

\* remaining_lines = max(20, remaining_lines - 20)
NextRemaining(remaining_lines) ==
    IF remaining_lines - 20 > 20 THEN remaining_lines - 20 ELSE 20

\* if keep_start > 10: another round is run with fewer lines; with a variant
\* that goes on reducing down to no line
CanReduceToNothing(keep_start) == keep_start > 0
CanReduce(keep_start) == keep_start > 10

\* the contents and budgets the function is called with
TruncateInputs ==
    { [op |-> "truncate", pc |-> "check", lines |-> Repeat(len, n), max_tokens |-> budget,
       keep_start |-> 0, keep_end |-> 0, remaining_lines |-> 0, rounds |-> 0,
       first |-> <<>>, ret |-> <<>>, how |-> "none"] :
         n \in LineCounts, len \in LineLengths, budget \in Budgets }

\* the check before the loop: content within the limit is returned as it is
TruncateCheck ==
    /\ trunc.op = "truncate" /\ trunc.pc = "check"
    /\ trunc' = IF EstimateTokens(JoinLen(trunc.lines)) <= trunc.max_tokens
                THEN [trunc EXCEPT !.pc = "done", !.ret = ContentLines(trunc.lines),
                                   !.how = "unchanged"]
                ELSE [trunc EXCEPT !.pc = "loop", !.keep_start = 50, !.keep_end = 50,
                                   !.remaining_lines = 100]
    /\ UNCHANGED <<idxVars, thrVars, cacheVars, scanVars, sel, pack, merge, reader,
                   structure_cache, struct, deleted>>

\* one round of the loop: return what was built if it fits, else reduce the
\* numbers of lines kept, else return the minimal version
TruncateStep ==
    /\ trunc.op = "truncate" /\ trunc.pc = "loop"
    /\ \E all \in {ContentLines(trunc.lines)} :
       \E truncated \in {TruncateRound(all, trunc.keep_start, trunc.keep_end,
                                       trunc.remaining_lines)} :
       \E lens \in {PieceLens(trunc.lines, truncated)} :
          LET seen == [trunc EXCEPT !.rounds = trunc.rounds + 1,
                                    !.first = IF trunc.rounds = 0 THEN truncated
                                              ELSE trunc.first]
          IN  trunc' =
                 IF EstimateTokens(JoinLen(lens)) <= trunc.max_tokens
                 THEN [seen EXCEPT !.pc = "done", !.ret = truncated, !.how = "round"]
                 ELSE IF CanReduce(trunc.keep_start)
                 THEN [seen EXCEPT !.keep_start = trunc.keep_start - 10,
                                   !.keep_end = trunc.keep_end - 10,
                                   !.remaining_lines = NextRemaining(trunc.remaining_lines)]
                 ELSE [seen EXCEPT !.pc = "done", !.ret = MinimalVersion(all),
                                   !.how = "minimal"]
    /\ UNCHANGED <<idxVars, thrVars, cacheVars, scanVars, sel, pack, merge, reader,
                   structure_cache, struct, deleted>>

NextTruncate ==
    \/ TruncateCheck
    \/ TruncateStep

----------------------------------------------------------------------------
(* WorkspaceManager._get_file_content on a small file, one system call at  *)
(* a time, while another process rewrites the file.                        *)

\* the file that is read and rewritten
RacePath == "a.py"

\* what the other process writes: every one a small file
RaceContents == {"one", "two", "par", "nil"}

\* what the file holds at one moment: its content, os.path.getmtime, os.path.getsize
FileState(file) ==
    [content |-> file.content, mtime |-> file.mtime, size |-> ContentInfo[file.content].size]

\* no call is under way; seen is every state the file has had
ReaderIdle(seen) ==
    [op |-> "get", pc |-> "idle", file_size |-> 0, content |-> "nil", ret |-> <<>>,
     raised |-> "none", how |-> "none", matched |-> [mtime |-> 0, size |-> 0],
     at |-> 0, raced |-> FALSE, seen |-> seen]

\* the other process rewrites the file; the modification time moves on or stays
OtherProcessWrites(content, keepMtime) ==
    /\ reader.op = "get"
    /\ nWrites < MaxWrites
    /\ files[RacePath].content # content
    /\ files' = [files EXCEPT ![RacePath] =
                    [exists |-> TRUE, content |-> content,
                     mtime |-> IF keepMtime THEN files[RacePath].mtime ELSE nWrites + 1,
                     readable |-> TRUE]]
    /\ nWrites' = nWrites + 1
    /\ reader' = [reader EXCEPT !.seen = reader.seen \cup {FileState(files'[RacePath])}]
    /\ UNCHANGED <<content_cache, cache_size, chunk_cache, call, idxVars, thrVars, scanVars,
                   sel, pack, merge, trunc, structure_cache, struct, deleted>>

\* file_size = os.path.getsize(file_path): a call starts
GetSize ==
    /\ reader.op = "get" /\ reader.pc \in {"idle", "done"}
    /\ cache_size <= MaxTracked
    /\ reader' = [ReaderIdle(reader.seen) EXCEPT
                     !.pc = "lookup",
                     !.file_size = ContentInfo[files[RacePath].content].size,
                     !.at = nWrites,
                     !.raced = reader.raced]
    /\ UNCHANGED <<idxVars, thrVars, cacheVars, scanVars, sel, pack, merge, trunc,
                   structure_cache, struct, deleted>>

\* the lookup in _content_cache with os.path.getmtime(file_path) == mtime and
\* size == file_size: a hit returns the content of the entry
LookupEntry ==
    /\ reader.op = "get" /\ reader.pc = "lookup"
    /\ LET entry == EntryOf(content_cache, RacePath)
       IN  reader' =
              IF entry # <<>> /\ CacheHit(entry[1], files[RacePath].mtime, reader.file_size)
              THEN [reader EXCEPT !.pc = "done", !.ret = entry[1].content, !.how = "hit",
                                  !.matched = [mtime |-> files[RacePath].mtime,
                                               size |-> reader.file_size]]
              ELSE [reader EXCEPT !.pc = "read"]
    /\ UNCHANGED <<idxVars, thrVars, cacheVars, scanVars, sel, pack, merge, trunc,
                   structure_cache, struct, deleted>>

\* content = f.read()
ReadContent ==
    /\ reader.op = "get" /\ reader.pc = "read"
    /\ reader' = [reader EXCEPT !.pc = "store", !.content = files[RacePath].content]
    /\ UNCHANGED <<idxVars, thrVars, cacheVars, scanVars, sel, pack, merge, trunc,
                   structure_cache, struct, deleted>>

\* _update_cache_size, the store of (content, os.path.getmtime(file_path),
\* file_size), add_document, return content
StoreEntry ==
    /\ reader.op = "get" /\ reader.pc = "store"
    /\ \E r \in {StoreSmall(CacheState, RacePath, reader.content, files[RacePath].mtime,
                            reader.file_size)} :
          /\ content_cache' = r.content_cache
          /\ cache_size' = r.cache_size
          /\ documents' = r.index.documents
          /\ total_docs' = r.index.total_docs
          /\ avg_doc_length' = r.index.avg_doc_length
          /\ idf_cache' = r.index.idf_cache
          /\ IF r.indexed
             THEN /\ lastOp' = [op |-> "add", stored |-> RacePath \in DocPaths(documents),
                                hadIdf |-> DOMAIN idf_cache # {}]
                  /\ nSearch' = 0
                  /\ result' = NoResult
             ELSE UNCHANGED <<lastOp, nSearch, result>>
          /\ reader' = [reader EXCEPT !.pc = "done", !.ret = r.ret, !.raised = r.raised,
                                      !.how = "read",
                                      !.raced = IF r.raised = "none" THEN nWrites # reader.at
                                                ELSE reader.raced /\ r.content_cache # <<>>]
    /\ UNCHANGED <<files, chunk_cache, call, nWrites, thrVars, scanVars, sel, pack, merge,
                   trunc, structure_cache, struct, deleted>>

NextRace ==
    \/ \E content \in RaceContents, keepMtime \in BOOLEAN : OtherProcessWrites(content, keepMtime)
    \/ GetSize
    \/ LookupEntry
    \/ ReadContent
    \/ StoreEntry

----------------------------------------------------------------------------
(* The state after WorkspaceManager.__init__ *)

\* the lines of the .gitignore of the workspace root:
\* none; "*.log"; "#x", "", "k"; "/c", "b/"; "?.py"; "*.md"
GitignoreFiles ==
    { <<>>,
      << <<"*", ".", "l", "o", "g">> >>,
      << <<"#", "x">>, <<>>, nK >>,
      << <<"/", "c">>, <<"b", "/">> >>,
      << <<"?", ".", "p", "y">> >>,
      << <<"*", ".", "m", "d">> >> }

\* a workspace with every optional file and the .gitignore line "*.log"
InitFs ==
    /\ present = FsDirs \cup FsFilesAlways \cup FsFilesOptional
    /\ dirOrder = "forward"
    /\ gitignore_patterns = LoadLines(<< <<"*", ".", "l", "o", "g">> >>)
    /\ exp = NoCall
    /\ walk = NoCall
    /\ scan = NoCall
    /\ dirMtime = [dir \in FsDirs |-> 0]

\* any of the workspaces
InitAnyFs ==
    /\ \E optional \in SUBSET FsFilesOptional :
           present = FsDirs \cup FsFilesAlways \cup optional
    /\ dirOrder \in {"forward", "reverse"}
    /\ \E lines \in GitignoreFiles : gitignore_patterns = LoadLines(lines)
    /\ exp = NoCall
    /\ walk = NoCall
    /\ scan = NoCall
    /\ dirMtime = [dir \in FsDirs |-> 0]

\* no thread is inside search; started counts the searches begun under SpecThreads
SearchIdle == [pc |-> "idle", started |-> 0]

InitIndex ==
    /\ documents = <<>>
    /\ total_docs = 0
    /\ avg_doc_length = [num |-> 0, den |-> 1]
    /\ idf_cache = NoCache
    /\ lastOp = [op |-> "init"]
    /\ result = NoResult
    /\ nSearch = 0
    /\ mutPc = "idle"
    /\ srch = SearchIdle

NextIndex ==
    \/ \E path \in IndexPaths, content \in Contents : AddDocument(path, content)
    \/ \E path \in IndexPaths : RemoveDocument(path)
    \/ \E query \in Queries, top_k \in 0..MaxTopK : Search(query, top_k)

vars == <<idxVars, thrVars, cacheVars, scanVars, ctxVars>>

\* no get_workspace_structure call was made
InitStructure == structure_cache = [p \in {} |-> <<>>] /\ struct = NoCall

\* no delete_workspace call was made
InitDeleted == deleted = NoCall

InitContext ==
    sel = NoCall /\ pack = NoCall /\ merge = NoCall /\ trunc = NoCall /\ reader = NoCall /\ InitStructure /\ InitDeleted

Init == InitIndex /\ InitCache /\ InitFs /\ InitContext

InitAnyWorkspace == InitIndex /\ InitCache /\ InitAnyFs /\ InitContext

SpecExpand == InitAnyWorkspace /\ [][NextExpand]_vars

SpecScan == InitAnyWorkspace /\ [][NextScan]_vars

Spec == Init /\ [][NextIndex]_vars

NextCache ==
    \/ \E path \in CachePaths, content \in ContentIds, keep \in BOOLEAN :
           WriteFile(path, content, keep)
    \/ \E path \in CachePaths : DeleteFile(path)
    \/ \E path \in CachePaths, window \in ChunkWindows :
           GetContent(path, window[1], window[2])
    \/ \E path \in CachePaths : ClearCachePath(path)
    \/ ClearCacheAll

SpecCache == Init /\ [][NextCache]_vars

\* the cache with files that go missing or lose their read permission
NextFailure ==
    \/ \E path \in CachePaths, content \in {"one", "big"} : WriteFile(path, content, FALSE)
    \/ \E path \in CachePaths : DeleteFile(path)
    \/ \E path \in CachePaths : MakeUnreadable(path)
    \/ \E path \in CachePaths, window \in ChunkWindows :
           GetContent(path, window[1], window[2])
    \/ ClearCacheAll

SpecFailure == Init /\ [][NextFailure]_vars

\* the chunk cache with large files that another process rewrites, every write
\* moving the modification time
NextChunkCache ==
    \/ \E path \in CachePaths, content \in {"big", "lrg"} : WriteFile(path, content, FALSE)
    \/ \E path \in CachePaths, window \in ChunkWindows :
           GetContent(path, window[1], window[2])
    \/ \E path \in CachePaths : ClearCachePath(path)
    \/ ClearCacheAll

SpecChunkCache == Init /\ [][NextChunkCache]_vars

\* any of the workspaces, with /w/A an imported workspace
InitDelete ==
    /\ InitIndex /\ InitCache /\ InitContext
    /\ \E optional \in SUBSET FsFilesOptional :
           present = FsDirs \cup FsFilesAlways \cup optional \cup {ImportedMarker}
    /\ dirOrder \in {"forward", "reverse"}
    /\ gitignore_patterns = <<>>
    /\ exp = NoCall
    /\ walk = NoCall
    /\ scan = NoCall
    /\ dirMtime = [dir \in FsDirs |-> 0]

SpecDelete == InitDelete /\ [][NextDelete]_vars

SpecSelect == Init /\ [][NextSelect]_vars

\* get_workspace_files without a query or on a missing workspace
WorkspaceCalls == { c \in SelectCalls : c[1] = "gone" \/ c[3] = <<>> }

NextWorkspaces ==
    \/ \E c \in WorkspaceCalls : GetWorkspaceFiles(c[1], c[2], c[3])
    \/ \E workspace_dir \in StructureDirs : GetWorkspaceStructure(workspace_dir)
    \/ ClearCacheAll

SpecWorkspaces == Init /\ [][NextWorkspaces]_vars

\* get_workspace_structure on a workspace that another process changes
NextStructure ==
    \/ \E workspace_dir \in StructureDirs : GetWorkspaceStructure(workspace_dir)
    \/ \E path \in ToggleFiles : ToggleFile(path)
    \/ ClearCacheAll

SpecStructure == Init /\ [][NextStructure]_vars

\* a call of prepareChunks is about to be made, with any of the arguments
InitChunks ==
    /\ InitIndex /\ InitCache /\ InitFs /\ InitStructure /\ InitDeleted
    /\ sel = NoCall /\ merge = NoCall /\ trunc = NoCall /\ reader = NoCall /\ pack \in ChunkInputs

SpecChunks == InitChunks /\ [][NextChunks]_vars

\* chunks were dispatched, with any of the results
InitMerge ==
    /\ InitIndex /\ InitCache /\ InitFs /\ InitStructure /\ InitDeleted
    /\ sel = NoCall /\ pack = NoCall /\ trunc = NoCall /\ reader = NoCall /\ merge \in MergeInputs

SpecMerge == InitMerge /\ [][NextMerge]_vars

\* a call of _truncate_content_for_context is about to be made, with any of
\* the contents and budgets
InitTruncate ==
    /\ InitIndex /\ InitCache /\ InitFs /\ InitStructure /\ InitDeleted
    /\ sel = NoCall /\ pack = NoCall /\ merge = NoCall /\ reader = NoCall
    /\ trunc \in TruncateInputs

SpecTruncate == InitTruncate /\ [][NextTruncate]_vars

\* the call goes on running until it returns
SpecTruncateFair == SpecTruncate /\ WF_vars(NextTruncate)

\* the file has been in one state so far and no call was made
InitRace ==
    /\ InitIndex /\ InitCache /\ InitFs /\ InitStructure /\ InitDeleted
    /\ sel = NoCall /\ pack = NoCall /\ merge = NoCall /\ trunc = NoCall
    /\ reader = ReaderIdle({FileState([content |-> WorkspaceFiles[RacePath].content, mtime |-> 0])})

SpecRace == InitRace /\ [][NextRace]_vars

----------------------------------------------------------------------------
(* BM25Search with two threads: one calling add_document / remove_document,     *)
(* which hold self._lock, and one calling search, which does not take the lock. *)
(* Each action is one step between two possible thread switches.  A mutation    *)
(* starts during a search at most once, so that the position of the dict        *)
(* iterator of search is the index into the sequence of documents.              *)

MaxSearches == 2

\* what the two threads are called with
ThreadContents == { << <<"A", "b">> >>, << <<"(">> >> }
ThreadQueries == { << <<"a", "b">> >>, << <<"A", "B">>, <<"(">> >> }

MutationMayStart == mutPc = "idle" /\ (srch.pc # "idle" => srch.mutations = 0)

NoteMutation == IF srch.pc = "idle" THEN srch ELSE [srch EXCEPT !.mutations = 1]

\* add_document: with self._lock, up to self.documents[path] = doc
AddBegin(path, content) ==
    /\ MutationMayStart
    /\ documents' = DictSet(documents, path, MakeDocument(path, content))
    /\ mutPc' = "stored"
    /\ srch' = NoteMutation
    /\ UNCHANGED <<total_docs, avg_doc_length, idf_cache, lastOp, result, nSearch, cacheVars, scanVars, ctxVars>>

\* remove_document: with self._lock, if path in self.documents: del self.documents[path]
RemoveBegin(path) ==
    /\ MutationMayStart
    /\ path \in DocPaths(documents)
    /\ documents' = DictDel(documents, path)
    /\ mutPc' = "stored"
    /\ srch' = NoteMutation
    /\ UNCHANGED <<total_docs, avg_doc_length, idf_cache, lastOp, result, nSearch, cacheVars, scanVars, ctxVars>>

\* self.total_docs = len(self.documents)
MutCount ==
    /\ mutPc = "stored"
    /\ total_docs' = Len(documents)
    /\ mutPc' = "counted"
    /\ UNCHANGED <<documents, avg_doc_length, idf_cache, lastOp, result, nSearch, srch, cacheVars, scanVars, ctxVars>>

\* self.avg_doc_length = total_length / self.total_docs, or 0
MutAverage ==
    /\ mutPc = "counted"
    /\ avg_doc_length' = AvgOf(TotalLength(documents), total_docs)
    /\ mutPc' = "averaged"
    /\ UNCHANGED <<documents, total_docs, idf_cache, lastOp, result, nSearch, srch, cacheVars, scanVars, ctxVars>>

\* self.idf_cache.clear(), and the lock is released
MutClear ==
    /\ mutPc = "averaged"
    /\ idf_cache' = NoCache
    /\ mutPc' = "idle"
    /\ UNCHANGED <<documents, total_docs, avg_doc_length, lastOp, result, nSearch, srch, cacheVars, scanVars, ctxVars>>

\* search raises: the call ends with the exception
SearchRaise(error) ==
    /\ srch' = [pc |-> "idle", started |-> srch.started]
    /\ result' = [error |-> error, items |-> <<>>]

\* search: query_terms = self.preprocess(query); the iterator over self.documents.items()
SearchBegin(query, top_k) ==
    /\ srch.pc = "idle"
    /\ srch.started < MaxSearches
    /\ srch' = [pc |-> "loop", started |-> srch.started + 1,
                terms |-> preprocess(query), top_k |-> top_k,
                iterSize |-> Len(documents), i |-> 1, scores |-> <<>>, mutations |-> 0]
    /\ result' = NoResult
    /\ UNCHANGED <<documents, total_docs, avg_doc_length, idf_cache, lastOp, nSearch, mutPc, cacheVars, scanVars, ctxVars>>

\* the next (path, doc) of the iterator, and doc_len_norm for it
SearchNextDoc ==
    /\ srch.pc = "loop"
    /\ IF Len(documents) # srch.iterSize
       THEN SearchRaise("RuntimeError")
       ELSE IF srch.i > Len(documents)
       THEN /\ srch' = [pc |-> "sort", started |-> srch.started, top_k |-> srch.top_k, scores |-> srch.scores,
                        mutations |-> srch.mutations]
            /\ UNCHANGED result
       ELSE IF avg_doc_length.num = 0
       THEN SearchRaise("ZeroDivisionError")
       ELSE /\ srch' = [pc |-> "terms", started |-> srch.started, terms |-> srch.terms, top_k |-> srch.top_k,
                        iterSize |-> srch.iterSize, i |-> srch.i, scores |-> srch.scores,
                        mutations |-> srch.mutations,
                        doc |-> documents[srch.i], avg |-> avg_doc_length, j |-> 1, score |-> 0]
            /\ UNCHANGED result
    /\ UNCHANGED <<documents, total_docs, avg_doc_length, idf_cache, lastOp, nSearch, mutPc, cacheVars, scanVars, ctxVars>>

SearchAddTerm(idf) ==
    [srch EXCEPT !.pc = "terms", !.j = srch.j + 1,
                 !.score = srch.score
                             + TermScore(idf, srch.doc.term_freqs[srch.terms[srch.j]],
                                         srch.doc.length, srch.avg)]

\* one query term for the current document, up to the cache lookup of _calculate_idf
SearchTerm ==
    /\ srch.pc = "terms"
    /\ IF srch.j > Len(srch.terms)
       THEN srch' = [pc |-> "loop", started |-> srch.started, terms |-> srch.terms, top_k |-> srch.top_k,
                     iterSize |-> srch.iterSize, i |-> srch.i + 1, mutations |-> srch.mutations,
                     scores |-> IF srch.score > 0
                                THEN DictSet(srch.scores, srch.doc.path,
                                             [path |-> srch.doc.path, score |-> srch.score])
                                ELSE srch.scores]
       ELSE IF srch.terms[srch.j] \notin DOMAIN srch.doc.term_freqs
       THEN srch' = [srch EXCEPT !.j = srch.j + 1]
       ELSE IF srch.terms[srch.j] \in DOMAIN idf_cache
       THEN srch' = SearchAddTerm(idf_cache[srch.terms[srch.j]])
       ELSE srch' = [srch EXCEPT !.pc = "count"]
    /\ UNCHANGED <<documents, total_docs, avg_doc_length, idf_cache, lastOp, result, nSearch, mutPc, cacheVars, scanVars, ctxVars>>

\* _calculate_idf: doc_freq = sum(1 for doc in self.documents.values() if term in doc.term_freqs)
SearchIdfCount ==
    /\ srch.pc = "count"
    /\ srch' = [pc |-> "log", started |-> srch.started, terms |-> srch.terms, top_k |-> srch.top_k,
                iterSize |-> srch.iterSize, i |-> srch.i, scores |-> srch.scores,
                mutations |-> srch.mutations, doc |-> srch.doc, avg |-> srch.avg,
                j |-> srch.j, score |-> srch.score,
                doc_freq |-> DocFreq(documents, srch.terms[srch.j])]
    /\ UNCHANGED <<documents, total_docs, avg_doc_length, idf_cache, lastOp, result, nSearch, mutPc, cacheVars, scanVars, ctxVars>>

\* _calculate_idf: idf = math.log(1 + (self.total_docs - doc_freq + 0.5) / (doc_freq + 0.5))
SearchIdfLog ==
    /\ srch.pc = "log"
    /\ srch' = [pc |-> "store", started |-> srch.started, terms |-> srch.terms, top_k |-> srch.top_k,
                iterSize |-> srch.iterSize, i |-> srch.i, scores |-> srch.scores,
                mutations |-> srch.mutations, doc |-> srch.doc, avg |-> srch.avg,
                j |-> srch.j, score |-> srch.score,
                idf |-> IdfMilli(total_docs, srch.doc_freq)]
    /\ UNCHANGED <<documents, total_docs, avg_doc_length, idf_cache, lastOp, result, nSearch, mutPc, cacheVars, scanVars, ctxVars>>

\* _calculate_idf: self.idf_cache[term] = idf; return idf
SearchIdfStore ==
    /\ srch.pc = "store"
    /\ idf_cache' = [t \in DOMAIN idf_cache \cup {srch.terms[srch.j]} |->
                        IF t = srch.terms[srch.j] THEN srch.idf ELSE idf_cache[t]]
    /\ srch' = [pc |-> "terms", started |-> srch.started, terms |-> srch.terms, top_k |-> srch.top_k,
                iterSize |-> srch.iterSize, i |-> srch.i, scores |-> srch.scores,
                mutations |-> srch.mutations, doc |-> srch.doc, avg |-> srch.avg,
                j |-> srch.j + 1,
                score |-> srch.score
                            + TermScore(srch.idf, srch.doc.term_freqs[srch.terms[srch.j]],
                                        srch.doc.length, srch.avg)]
    /\ UNCHANGED <<documents, total_docs, avg_doc_length, lastOp, result, nSearch, mutPc, cacheVars, scanVars, ctxVars>>

\* the sort, the slice and doc = self.documents[path] for each result
SearchFinish ==
    /\ srch.pc = "sort"
    /\ LET items == Prefix(SortByScore(srch.scores), srch.top_k)
       IN  result' = IF \A k \in DOMAIN items : items[k].path \in DocPaths(documents)
                     THEN [error |-> "none", items |-> items]
                     ELSE [error |-> "KeyError", items |-> <<>>]
    /\ srch' = [pc |-> "idle", started |-> srch.started]
    /\ UNCHANGED <<documents, total_docs, avg_doc_length, idf_cache, lastOp, nSearch, mutPc, cacheVars, scanVars, ctxVars>>

NextThreads ==
    \/ \E path \in IndexPaths, content \in ThreadContents : AddBegin(path, content)
    \/ \E path \in IndexPaths : RemoveBegin(path)
    \/ MutCount
    \/ MutAverage
    \/ MutClear
    \/ \E query \in ThreadQueries, top_k \in 1..MaxTopK : SearchBegin(query, top_k)
    \/ SearchNextDoc
    \/ SearchTerm
    \/ SearchIdfCount
    \/ SearchIdfLog
    \/ SearchIdfStore
    \/ SearchFinish

SpecThreads == Init /\ [][NextThreads]_vars

----------------------------------------------------------------------------
(* Claims about the index, under Spec *)

\* C1: after any sequence of add_document / remove_document calls (a re-add of a
\* stored path and a remove of an absent path included), total_docs is the number
\* of stored documents and avg_doc_length is the sum of their lengths divided by
\* total_docs, or 0 when the index is empty.
C1_CorpusInvariant ==
    /\ Cardinality(DocPaths(documents)) = Len(documents)
    /\ total_docs = Len(documents)
    /\ IF documents = <<>>
       THEN avg_doc_length.num = 0
       ELSE avg_doc_length.num * total_docs
                = SumSeq([i \in DOMAIN documents |-> documents[i].length]) * avg_doc_length.den

\* a stored path was re-added next to another document, and the corpus has tokens
C1_Witness ==
    /\ lastOp.op = "add"
    /\ lastOp.stored
    /\ Len(documents) = 2
    /\ documents[1].length # documents[2].length

\* C4: idf_cache is emptied by every add_document and by every remove_document
\* that removes a stored document, so every value it holds is the IDF formula
\* evaluated on the current corpus.
C4_IdfCacheFresh ==
    /\ (lastOp.op = "add" \/ (lastOp.op = "remove" /\ lastOp.stored)) => idf_cache = NoCache
    /\ \A t \in DOMAIN idf_cache :
           idf_cache[t] = IdfMilli(Len(documents), DocFreq(documents, t))

\* a remove of a stored document found IDF values cached and left a non-empty corpus
C4_Witness ==
    /\ lastOp.op = "remove"
    /\ lastOp.stored
    /\ lastOp.hadIdf
    /\ documents # <<>>

\* C6: a search repeated with the same query and top_k, with no mutation of the
\* index in between, returns the same paths in the same order with the same scores.
C6_SearchDeterministic ==
    [][(/\ lastOp.op = "search"
        /\ lastOp'.op = "search"
        /\ lastOp'.query = lastOp.query
        /\ lastOp'.top_k = lastOp.top_k) => result' = result]_vars

\* the same search ran twice in a row and returned two scored documents
C6_Witness ==
    /\ nSearch = 2
    /\ Len(result.items) = 2
    /\ DOMAIN idf_cache # {}

\* the score of a stored document for a query, every IDF computed afresh
FreshScore(doc, query) ==
    ScoreTerms(doc, Tokenize(query), documents, Len(documents), avg_doc_length, NoCache).score

ResultPaths == {result.items[i].path : i \in DOMAIN result.items}

\* C7: search returns at most top_k results, in non-increasing score order, none
\* of score zero (each contains a query token), and every stored document left
\* out scores no higher than the lowest returned score.
C7_SearchResultRanked ==
    (lastOp.op = "search" /\ result.error = "none") =>
        /\ Len(result.items) <= lastOp.top_k
        /\ Cardinality(ResultPaths) = Len(result.items)
        /\ ResultPaths \subseteq DocPaths(documents)
        /\ \A i, j \in DOMAIN result.items :
               i < j => result.items[i].score >= result.items[j].score
        /\ \A i \in DOMAIN result.items :
               /\ result.items[i].score > 0
               /\ \E t \in Range(Tokenize(lastOp.query)) :
                      t \in DOMAIN documents[DocIndex(documents, result.items[i].path)].term_freqs
        /\ \A d \in DOMAIN documents :
               (documents[d].path \notin ResultPaths /\ result.items # <<>>) =>
                   FreshScore(documents[d], lastOp.query)
                       <= result.items[Len(result.items)].score

\* a search with top_k = 1 left out a document that matches the query with a lower score
C7_Witness ==
    /\ lastOp.op = "search"
    /\ lastOp.top_k = 1
    /\ Len(result.items) = 1
    /\ \E d \in DOMAIN documents :
           /\ documents[d].path \notin ResultPaths
           /\ FreshScore(documents[d], lastOp.query) > 0
           /\ FreshScore(documents[d], lastOp.query) < result.items[1].score

----------------------------------------------------------------------------
(* Claims about the index with concurrent callers, under SpecThreads *)

\* C5: a search concurrent with add_document / remove_document does not interleave
\* with the mutation, so once the mutation and the search have returned, no IDF
\* value computed from another corpus than the current one is left in idf_cache.
C5_NoStaleIdfAfterMutation ==
    (mutPc = "idle" /\ srch.pc = "idle") =>
        \A t \in DOMAIN idf_cache :
            idf_cache[t] = IdfMilli(Len(documents), DocFreq(documents, t))


\* C2: getContent on an existing small file that getContent cached before
\* returns the entry's content only if the entry's stored modification time and
\* size both equal the file's current ones; otherwise (the file was rewritten,
\* for one with another size) it returns the file's current content.
C2_RewrittenFileIsReread ==
    (call.op = "get" /\ call.entry # <<>> /\ files[call.path].exists
        /\ ContentInfo[files[call.path].content].size < LARGE_FILE_THRESHOLD) =>
        /\ call.raised = "none"
        /\ \/ call.ret = WholeFile(files[call.path].content)
           \/ /\ call.entry[1].mtime = files[call.path].mtime
              /\ call.entry[1].size = ContentInfo[files[call.path].content].size
              /\ call.ret = call.entry[1].content

\* C3: after a getContent call has returned, the content cache holds at most
\* MAX_CACHE_ENTRIES entries and at most MAX_CACHE_SIZE bytes of content.
C3_CacheWithinLimits ==
    (call.op = "get" /\ call.raised = "none") =>
        /\ Len(content_cache) <= MAX_CACHE_ENTRIES
        /\ SumSeq([i \in 1..Len(content_cache) |-> EncodedSize(content_cache[i].content)])
               <= MAX_CACHE_SIZE


----------------------------------------------------------------------------
(* Claims about expand_directory, under SpecExpand *)

\* the directory a call of expand_directory names: <<>> if none, else <<path>>
ExpandTarget ==
    Resolve(present, IF IsAbs(exp.dir_path) THEN exp.dir_path
                     ELSE PathJoin(WorkspaceDir, exp.dir_path))

\* the eligible children of a directory: not hidden, not a skipped folder, not
\* a file with a skipped extension, not matched by a .gitignore pattern
EligibleNames(dir) ==
    { name \in ChildNames(present, dir) :
        /\ ~StartsWith(name, <<".">>)
        /\ IsDir(present, Append(dir, name)) => name \notin SKIP_FOLDERS
        /\ IsFile(present, Append(dir, name)) => \A ext \in SKIP_EXTENSIONS : ~EndsWith(name, ext)
        /\ ~ShouldIgnore(gitignore_patterns, name) }

\* x may stand before y: a directory before a file, and among entries of one
\* kind the path that is not greater when letter case is ignored
MayPrecede(x, y) ==
    IF x.type # y.type THEN x.type = "directory"
    ELSE ~StrLess(Lower(y.path), Lower(x.path))

\* entries are in order, without repetition, and are eligible children of dir
OrderedEligible(items, dir) ==
    /\ \A i, j \in DOMAIN items : i < j => MayPrecede(items[i], items[j]) /\ items[i].path # items[j].path
    /\ \A i \in DOMAIN items :
          /\ items[i].path \in EligibleNames(dir)
          /\ (items[i].type = "directory") = IsDir(present, Append(dir, items[i].path))

\* what the claim says of one page, for the listing of dir
PageAsClaimed(dir) ==
    LET E == EligibleNames(dir)
        total == Cardinality(E)
        first == (exp.page - 1) * exp.page_size
        last == exp.page * exp.page_size
        count == IF last <= first \/ total <= first THEN 0
                 ELSE IF last <= total THEN last - first ELSE total - first
        items == exp.ret.items
        key(name) == [type |-> IF IsDir(present, Append(dir, name)) THEN "directory" ELSE "file",
                      path |-> name]
    IN  /\ exp.ret.total_items = total
        /\ Len(items) = count
        /\ exp.ret.has_more = (last < total)
        /\ OrderedEligible(items, dir)
        \* the items stand at positions first+1 .. first+count of the sorted list:
        \* the eligible children left out stand before all of them or after all of them
        /\ \A i \in DOMAIN items :
              /\ Cardinality({n \in E : ~MayPrecede(items[i], key(n))}) <= first + i - 1
              /\ Cardinality({n \in E : MayPrecede(key(n), items[i])}) >= first + i

\* what the claim says of the pages 1, 2, ..., k requested in turn
WalkAsClaimed(dir) ==
    /\ OrderedEligible(walk.items, dir)
    /\ Len(walk.items) =
          IF walk.page * walk.page_size <= Cardinality(EligibleNames(dir))
          THEN walk.page * walk.page_size ELSE Cardinality(EligibleNames(dir))
    /\ ~walk.has_more => { walk.items[i].path : i \in DOMAIN walk.items } = EligibleNames(dir)

\* C8 (as stated, for every pageSize): for page >= 1 the items are positions
\* (page-1)*pageSize up to page*pageSize of the sorted eligible children,
\* totalItems is their number, hasMore tells whether items lie beyond the page,
\* and the pages concatenated give the sorted list without repetition or gap.
C8_PagesOfSortedListing ==
    (exp.op = "expand" /\ exp.ret.error = "none" /\ exp.page >= 1) =>
        /\ PageAsClaimed(ExpandTarget[1])
        /\ walk.op = "walk" => WalkAsClaimed(ExpandTarget[1])

\* C8 (amended): the same, for page >= 1 and pageSize >= 1.
C8_PagesOfSortedListingPositiveSize ==
    (exp.op = "expand" /\ exp.ret.error = "none" /\ exp.page >= 1 /\ exp.page_size >= 1) =>
        /\ PageAsClaimed(ExpandTarget[1])
        /\ walk.op = "walk" => WalkAsClaimed(ExpandTarget[1])

\* 7 eligible entries (two of them differing in letter case only), pageSize 3:
\* page 3 has been returned after pages 1 and 2, with 1 item and hasMore false
C8_Witness ==
    /\ exp.op = "expand" /\ exp.ret.error = "none"
    /\ exp.page_size = 3 /\ exp.page = 3
    /\ walk.op = "walk" /\ walk.page = 3
    /\ Len(walk.items) = 7
    /\ Len(exp.ret.items) = 1
    /\ ~exp.ret.has_more
    /\ dirOrder = "reverse"

\* C9: expand raises a user error and lists nothing when dirPath names a
\* location outside the workspace root, a path that does not exist, or a path
\* that is not a directory.
C9_ExpandRejectsBadPaths ==
    exp.op = "expand" =>
        ((\/ ExpandTarget = <<>>
          \/ ~IsDir(present, ExpandTarget[1])
          \/ SubSeq(ExpandTarget[1], 1, 1) # <<nW>>)
            => (exp.ret.error # "none" /\ exp.ret.items = <<>>))

----------------------------------------------------------------------------
(* Claims about _parallel_scan, under SpecScan *)

\* os.path.splitext(name)[1]
Extension(name) ==
    LET dots == {i \in 2..Len(name) : name[i] = "."}
    IN  IF dots = {} THEN <<>>
        ELSE SubSeq(name, CHOOSE i \in dots : \A j \in dots : j <= i, Len(name))

\* the files under root to which none of the ignore rules applies
ScanExpected(root) ==
    { path \in present :
        /\ IsFile(present, path)
        /\ Len(path) > Len(root)
        /\ SubSeq(path, 1, Len(root)) = root
        /\ \A i \in (Len(root) + 1)..Len(path) : path[i][1] # "."
        /\ \A i \in (Len(root) + 1)..(Len(path) - 1) : path[i] \notin SKIP_FOLDERS
        /\ Extension(path[Len(path)]) \notin SKIP_EXTENSIONS
        /\ ~ShouldIgnore(gitignore_patterns, Relpath(path, root)) }

\* C10: scan(root) returns, each once and as an (absolute path, path relative
\* to root) pair, exactly the files under root with no hidden name on the way,
\* no ancestor in SKIP_FOLDERS, no extension in SKIP_EXTENSIONS and a relative
\* path that no loaded .gitignore pattern matches; with the line "*.log",
\* debug.log is left out and readme.md is returned.
C10_ScanAppliesIgnoreRules ==
    scan.op = "scan" =>
        /\ { scan.ret[i] : i \in DOMAIN scan.ret }
              = { <<EntryPath(path), Relpath(path, scan.root)>> : path \in ScanExpected(scan.root) }
        /\ \A i, j \in DOMAIN scan.ret : i # j => scan.ret[i] # scan.ret[j]
        /\ (scan.root = <<nW>> /\ gitignore_patterns = LoadLines(<< <<"*", ".", "l", "o", "g">> >>)) =>
              /\ \A i \in DOMAIN scan.ret : scan.ret[i][2] # nDebugLog
              /\ Cardinality({i \in DOMAIN scan.ret :
                                 scan.ret[i] = << <<"/">> \o nW \o <<"/">> \o nReadmeMd, nReadmeMd >>}) = 1

\* the root has been scanned with the line "*.log" loaded and debug.log present
C10_Witness ==
    /\ scan.op = "scan"
    /\ scan.root = <<nW>>
    /\ gitignore_patterns = LoadLines(<< <<"*", ".", "l", "o", "g">> >>)
    /\ <<nW, nDebugLog>> \in present
    /\ \E i \in DOMAIN scan.ret : scan.ret[i][2] = nReadmeMd
    /\ \E i \in DOMAIN scan.ret : scan.ret[i][2] = nB \o <<"/">> \o nXPy

----------------------------------------------------------------------------
(* Claims about get_workspace_files, under SpecSelect *)

\* no word of the query occurs in the path of the file or in the start of its content
\* (no file has indexed symbols)
Unmatched(path, query) ==
    /\ ~AnyTermIn(QueryTerms(query), WorkspaceFiles[path].rel)
    /\ ~AnyTermIn(QueryTerms(query), Preview(files[path].content))

ScoredPaths == { sel.scored[i].path : i \in DOMAIN sel.scored }

ReturnedPaths == { sel.ret[i].path : i \in DOMAIN sel.ret }

\* C11: after a call with a query, a scanned file that no query word matches
\* (path, start of the content, symbols) has no positive score and is not in
\* the returned map, wherever it lies and whatever its extension.
C11_UnmatchedFileNotReturned ==
    (sel.op = "select" /\ sel.query # <<>>) =>
        \A path \in Range(sel.all_files) :
            Unmatched(path, sel.query) => path \notin ScoredPaths /\ path \notin ReturnedPaths


\* os.path.getsize of a file with that content, in bytes
FileBytes(id) == SumSeq([c \in DOMAIN ContentInfo[id].lines |-> JoinLen(ContentInfo[id].lines[c])])

\* C12: a call without a query returns an entry for exactly the scanned files
\* that lie directly in the workspace root or are smaller than 50 KiB; a file
\* of 50 KiB or more in a subdirectory is not returned.
C12_DefaultSelectsRootAndSmall ==
    (sel.op = "select" /\ sel.query = <<>>) =>
        ReturnedPaths = { path \in Range(sel.all_files) :
                             path \in RootFiles \/ FileBytes(files[path].content) < 50 * 1024 }


\* the relevance score the call gave a file (0 for a file that was not scored)
ScoreOf(path) ==
    IF path \in ScoredPaths
    THEN sel.scored[CHOOSE i \in DOMAIN sel.scored : sel.scored[i].path = path].score
    ELSE 0

\* the position of a file in the scanner's result
ScanIndex(path) == CHOOSE i \in DOMAIN sel.all_files : sel.all_files[i] = path

\* q is preferred to p: a higher score, or the same score and earlier in the scan
Preferred(q, p) ==
    ScoreOf(q) > ScoreOf(p) \/ (ScoreOf(q) = ScoreOf(p) /\ ScanIndex(q) < ScanIndex(p))

\* the files with the TOP_FILES highest scores, ties going to the earlier file
BestScored ==
    { p \in ScoredPaths : Cardinality({ q \in ScoredPaths : Preferred(q, p) }) < TOP_FILES }

\* C13: a call with a query returns at most TOP_FILES (10 in the source)
\* files, namely the files with the highest scores, ties going to the files
\* earlier in the scanner's result, whatever the order in which the parallel
\* loads take place.
C13_ReturnsTopScored ==
    (sel.op = "select" /\ sel.query # <<>>) =>
        Len(sel.ret) <= TOP_FILES /\ ReturnedPaths = BestScored


\* C14: every content in the map get_workspace_files returns, with or without
\* a query, has an estimated token count of at most MAX_TOKENS, also for a
\* file of fewer than 20 lines or with very long lines.
C14_ReturnedContentWithinTokenBudget ==
    sel.op = "select" =>
        \A i \in DOMAIN sel.ret : EstimateTokens(JoinLen(sel.ret[i].value)) <= MAX_TOKENS

----------------------------------------------------------------------------
(* Claims about prepareChunks, under SpecChunks *)

\* the budget of the last call
PackAvailable == AvailableTokens(pack.maxTokens, pack.reserved)

\* estimated tokens plus header overhead, summed over the entries of a chunk
ChunkCost(chunk) ==
    SumSeq([i \in DOMAIN chunk |-> SumSeq(chunk[i].lines) + PER_FILE_HEADER_OVERHEAD])

HoldsWholeFiles(chunk) == \A i \in DOMAIN chunk : chunk[i].part = 0

\* where a file occurs in the chunks: (chunk, position)
Occurrences(path) ==
    { o \in { <<c, i>> : c \in DOMAIN pack.ret, i \in 1..Cardinality(ChunkPaths) } :
         o[2] \in DOMAIN pack.ret[o[1]] /\ pack.ret[o[1]][o[2]].path = path }

EntryAt(o) == pack.ret[o[1]][o[2]]

\* the file is in one chunk, whole
InOneChunk(path) ==
    Cardinality(Occurrences(path)) = 1 /\ \A o \in Occurrences(path) : EntryAt(o).part = 0

\* the file is split into parts 1..n, each labelled i/n and a chunk of its own
SplitIntoParts(path) ==
    \E n \in 1..Len(ChunkFileInfo[path].lines) :
        /\ Cardinality(Occurrences(path)) = n
        /\ \A o \in Occurrences(path) :
              EntryAt(o).of = n /\ EntryAt(o).part \in 1..n /\ Len(pack.ret[o[1]]) = 1
        /\ \A i \in 1..n : \E o \in Occurrences(path) : EntryAt(o).part = i

\* C15: in every chunk prepareChunks produces that holds whole files, the
\* estimated tokens of the files plus the header overhead per file sum to at
\* most the available budget (maxTokens minus the reserved preamble estimate
\* minus the safety buffer), and every input file is in exactly one chunk or
\* is split into labelled parts.
C15_ChunksWithinBudget ==
    pack.op = "prepare" =>
        /\ \A c \in DOMAIN pack.ret :
              HoldsWholeFiles(pack.ret[c]) => ChunkCost(pack.ret[c]) <= PackAvailable
        /\ \A path \in pack.filesMap : InOneChunk(path) \/ SplitIntoParts(path)
        /\ \A path \in ChunkPaths \ pack.filesMap : Occurrences(path) = {}

\* a call that packed two files into one chunk, opened a second chunk of
\* whole files and split a file into several parts
C15_Witness ==
    /\ pack.op = "prepare"
    /\ \E c \in DOMAIN pack.ret : HoldsWholeFiles(pack.ret[c]) /\ Len(pack.ret[c]) >= 2
    /\ Cardinality({ c \in DOMAIN pack.ret : HoldsWholeFiles(pack.ret[c]) }) >= 2
    /\ \E path \in pack.filesMap : SplitIntoParts(path) /\ Cardinality(Occurrences(path)) >= 2

----------------------------------------------------------------------------
(* Claims about mergeResults, under SpecMerge *)

\* the chunks whose result holds the file path
ChunksWith(path) ==
    { i \in DOMAIN merge.results :
         \E k \in DOMAIN merge.results[i].files : merge.results[i].files[k].path = path }

\* the entries of the output for the file path
MergedEntries(path) ==
    { k \in DOMAIN merge.ret.files : merge.ret.files[k].path = path }

\* C16: for each file path that occurs in the results of several chunks,
\* mergeResults keeps only the occurrence of the chunk that is first in the
\* caller-supplied chunk order, and it concatenates the operation lists of
\* all chunks; the output is the same for every order in which the chunks
\* complete: it is the output for the chunks completing in chunk order.
C16_MergeKeepsFirstByChunkOrder ==
    merge.op = "merge" =>
        /\ \A path \in {"f", "g"} :
              IF ChunksWith(path) = {} THEN MergedEntries(path) = {}
              ELSE /\ Cardinality(MergedEntries(path)) = 1
                   /\ \A k \in MergedEntries(path) :
                         /\ merge.ret.files[k].from \in ChunksWith(path)
                         /\ \A i \in ChunksWith(path) : merge.ret.files[k].from <= i
        /\ merge.ret.operations =
              Flatten([i \in DOMAIN merge.results |-> merge.results[i].operations])
        /\ merge.ret = MergeOutcome(merge.results)

\* a merge of three results that arrived in another order than the chunk
\* order, with a file path in a later-arriving chunk of lower index
C16_Witness ==
    /\ merge.op = "merge"
    /\ Len(merge.results) = 3
    /\ [k \in DOMAIN merge.arrived |-> merge.arrived[k].index] = <<3, 1, 2>>
    /\ ChunksWith("f") = {1, 3}
    /\ Len(merge.ret.operations) >= 3

----------------------------------------------------------------------------
(* Claims about calls on a path that is no workspace, under SpecWorkspaces *)

\* a get_workspace_files call on a workspace path that does not exist
SelectOnInvalid ==
    \E c \in WorkspaceCalls : c[1] = "gone" /\ GetWorkspaceFiles(c[1], c[2], c[3])

\* a get_workspace_structure call on a path that is missing or is a file
StructureOnInvalid ==
    \E workspace_dir \in StructureDirs :
        /\ LET target == Resolve(present, workspace_dir)
           IN  target = <<>> \/ ~IsDir(present, target[1])
        /\ GetWorkspaceStructure(workspace_dir)

\* no cache of the manager or of the index changes
CachesUnchanged ==
    UNCHANGED <<content_cache, cache_size, chunk_cache, structure_cache,
                documents, total_docs, avg_doc_length, idf_cache>>

\* C17: get_workspace_structure (listStructure) and get_workspace_files
\* (getRelevantContext), called with a workspace path that does not exist or
\* is not a directory, fail with the error InvalidWorkspace instead of
\* returning an empty listing or an empty map, and leave every cache
\* unchanged.
C17_InvalidWorkspaceFails ==
    [][ /\ SelectOnInvalid => sel'.error = "InvalidWorkspace" /\ CachesUnchanged
        /\ StructureOnInvalid => struct'.error = "InvalidWorkspace" /\ CachesUnchanged ]_vars


----------------------------------------------------------------------------
(* Claims about _get_file_content on files that cannot be read, under SpecFailure *)

\* a call of _get_file_content on a file that is missing or cannot be opened
FailedGet(path, window) ==
    /\ ~files[path].exists \/ ~files[path].readable
    /\ GetContent(path, window[1], window[2])

\* no path is added to the content cache
NoEntryAdded == DocPaths(content_cache') \subseteq DocPaths(content_cache)

\* the returned text was in a cache before the call: the content of the
\* path's entry of the content cache, or chunks of the path in the chunk cache
ServedFromCache(path, pieces) ==
    \/ /\ EntryOf(content_cache, path) # <<>>
       /\ pieces = EntryOf(content_cache, path)[1].content
    \/ /\ pieces # <<>>
       /\ path \in DOMAIN chunk_cache
       /\ \A k \in DOMAIN pieces :
             \E i \in DOMAIN chunk_cache[path] : chunk_cache[path][i] = pieces[k]

----------------------------------------------------------------------------
(* Claims about delete_workspace, under SpecDelete *)

\* WORKSPACE_ROOT joined with workspace_id names a location that is not inside
\* WORKSPACE_ROOT: the names of the normalised path do not start with the root's
OutsideRoot(workspace_id) ==
    LET names == NormNames(<<>>, SplitPath(OsPathJoin(WorkspaceDir, workspace_id)))
    IN  ~(Len(names) >= 1 /\ names[1] = nW)

\* C19: delete_workspace(workspace_id) raises an error matching 'Invalid
\* workspace path' and removes nothing from the file system whenever
\* WORKSPACE_ROOT joined with workspace_id resolves to a location that is not
\* inside WORKSPACE_ROOT ('../invalid', and also an id resolving to a sibling
\* directory whose name starts with the root's name).
C19_DeleteRejectsOutsideRoot ==
    (deleted.op = "delete" /\ OutsideRoot(deleted.workspace_id)) =>
        /\ \E k \in DOMAIN deleted.message : deleted.message[k] = "Invalid workspace path"
        /\ present = deleted.before


----------------------------------------------------------------------------
(* Claims about the eviction order of the content cache, under SpecCache *)

\* the entry of path p comes before the entry of path q in the dict
Precedes(cache, p, q) == DocIndex(cache, p) < DocIndex(cache, q)

\* Of the entries of other paths the call found in the cache, none was evicted
\* while one inserted before it is still present.
EvictedAreOldest(path) ==
    \A p \in DocPaths(content_cache) \ {path}, q \in DocPaths(content_cache) \ {path} :
        (Precedes(content_cache, p, q) /\ p \in DocPaths(content_cache'))
            => q \in DocPaths(content_cache')

\* The path is not behind an entry that it was in front of before the call.
NotMovedLater(path) ==
    \A q \in (DocPaths(content_cache) \cap DocPaths(content_cache')) \ {path} :
        (path \in DocPaths(content_cache) /\ path \in DocPaths(content_cache'))
            => (Precedes(content_cache, path, q) => Precedes(content_cache', path, q))

\* C20: when inserting into the content cache exceeds MAX_CACHE_SIZE or
\* MAX_CACHE_ENTRIES, the entry evicted is the one that was inserted earliest
\* among the entries still present; a cache hit on an entry, or re-reading a
\* stale entry under the same path, never moves it later in the eviction order.
C20_EvictsOldestInserted ==
    [][ \A path \in CachePaths, window \in ChunkWindows :
           GetContent(path, window[1], window[2]) =>
               EvictedAreOldest(path) /\ NotMovedLater(path) ]_vars


----------------------------------------------------------------------------
(* Claims about the chunk cache, under SpecChunkCache *)

RECURSIVE CurrentChunks(_, _, _)
\* the chunks i..last that the file holds now: none from the first window that
\* lies past the end of the file
CurrentChunks(id, i, last) ==
    IF i > last \/ i * CHUNK_SIZE >= ContentInfo[id].size THEN <<>>
    ELSE <<[content |-> id, chunk |-> i]>> \o CurrentChunks(id, i + 1, last)

\* a call of _get_file_content on a file at or above the large-file threshold
LargeGet(path, window) ==
    /\ files[path].exists
    /\ ContentInfo[files[path].content].size >= LARGE_FILE_THRESHOLD
    /\ GetContent(path, window[1], window[2])

\* C21: for a file at or above the large-file threshold, a cached chunk is
\* invalidated when the file's modification time changes: after the file is
\* modified, the next _get_file_content(path, start_chunk, num_chunks) returns
\* the current bytes of the requested windows, not the chunks cached before
\* the modification, and nothing for a window that now lies past the end of
\* the file.
C21_ModifiedLargeFileIsReread ==
    [][ \A path \in CachePaths, window \in ChunkWindows :
           LargeGet(path, window) =>
               call'.ret = CurrentChunks(files[path].content, window[1],
                                         window[1] + window[2] - 1) ]_vars


----------------------------------------------------------------------------
(* Claims about get_workspace_structure, under SpecStructure *)

\* the files below root that count as eligible: not hidden, without a skipped
\* extension, not matched by .gitignore, in no hidden or skipped folder
EligibleFiles(fs, patterns, root) ==
    { path \in fs :
         /\ Len(path) > Len(root)
         /\ SubSeq(path, 1, Len(root)) = root
         /\ IsFile(fs, path)
         /\ \A k \in (Len(root) + 1)..(Len(path) - 1) :
               ~IsHidden(path[k]) /\ path[k] \notin SKIP_FOLDERS
         /\ ~IsHidden(path[Len(path)])
         /\ ~HasSkipExtension(path[Len(path)])
         /\ ~ShouldIgnore(patterns, Relpath(path, root)) }

RECURSIVE ListingOf(_, _, _, _, _)
\* the listing of dir: of every level if recursive, else of dir alone
ListingOf(fs, order, patterns, dir, recursive) ==
    LET names == Scandir(fs, order, dir)
        listed == SelectSeqBy(names, [i \in DOMAIN names |->
                                         ExpandLists(fs, patterns, dir, names[i])])
        Children(name) ==
            IF recursive /\ IsDir(fs, Append(dir, name))
            THEN ListingOf(fs, order, patterns, Append(dir, name), TRUE)
            ELSE <<>>
    IN  SortEntries([i \in DOMAIN listed |->
            [type |-> IF IsDir(fs, Append(dir, listed[i])) THEN "directory" ELSE "file",
             path |-> listed[i],
             size |-> IF IsDir(fs, Append(dir, listed[i])) THEN 0 ELSE 1,
             has_children |-> IsDir(fs, Append(dir, listed[i]))
                                 /\ ChildNames(fs, Append(dir, listed[i])) # {},
             children |-> Children(listed[i])]])

\* the listing computed from the file system as it is
FreshListing(dir) ==
    ListingOf(present, dirOrder, gitignore_patterns, dir,
              Cardinality(EligibleFiles(present, gitignore_patterns, dir)) <= LAZY_LOAD_THRESHOLD)

\* the structure cache holds an entry for the workspace whose modification
\* time is the current one of the directory
StructureCacheValid(workspace_dir, dir) ==
    /\ workspace_dir \in DOMAIN structure_cache
    /\ structure_cache[workspace_dir].mtime = dirMtime[dir]

\* C22: get_workspace_structure (getStructure) on a workspace root returns the
\* cached listing exactly when the current modification time of the root
\* directory equals the one stored with the cache entry; otherwise it
\* recomputes the listing from the file system (the full recursive listing
\* when the number of eligible files is at most LAZY_LOAD_THRESHOLD, the
\* listing of the top level alone when it is greater) and stores it together
\* with the current modification time of the root.
C22_StructureCachedByRootMtime ==
    [][ \A workspace_dir \in StructureDirs :
           LET target == Resolve(present, workspace_dir)
           IN  (target # <<>> /\ IsDir(present, target[1])
                   /\ GetWorkspaceStructure(workspace_dir)) =>
                   IF StructureCacheValid(workspace_dir, target[1])
                   THEN /\ struct'.ret = structure_cache[workspace_dir].structure
                        /\ structure_cache' = structure_cache
                   ELSE /\ struct'.ret = FreshListing(target[1])
                        /\ structure_cache'[workspace_dir] =
                              [structure |-> FreshListing(target[1]),
                               mtime |-> dirMtime[target[1]]]
                        /\ \A p \in DOMAIN structure_cache \ {workspace_dir} :
                              structure_cache'[p] = structure_cache[p] ]_vars

\* the workspace root was listed again after its modification time moved, and
\* the listing is the recursive one
C22_Witness ==
    /\ struct.op = "structure"
    /\ struct.workspace_dir = WorkspaceDir
    /\ WorkspaceDir \in DOMAIN structure_cache
    /\ structure_cache[WorkspaceDir].mtime = dirMtime[<<nW>>]
    /\ dirMtime[<<nW>>] > 0
    /\ struct.ret = structure_cache[WorkspaceDir].structure
    /\ \E k \in DOMAIN struct.ret : struct.ret[k].children # <<>>


----------------------------------------------------------------------------
(* Claims about _truncate_content_for_context, under SpecTruncate *)

\* the smaller of two numbers
Least(a, b) == IF a < b THEN a ELSE b

\* lines from..to of the content, as pieces
LinesFromTo(from, to) == [i \in 1..(to - from + 1) |-> LinePiece(from + i - 1)]

\* what the first round kept between the first 50 and the last 50 lines
FirstRoundMiddle ==
    LET head == Least(50, Len(trunc.lines))
    IN  SelectSeqBy(SubSeq(trunc.first, head + 1, Len(trunc.first) - head),
                    [k \in 1..(Len(trunc.first) - 2 * head) |->
                        trunc.first[head + k].kind = "line"])

\* C23: when truncation is needed, the first round keeps the first 50 and the
\* last 50 lines of the input verbatim and in order; of the middle lines
\* between them it keeps every line when the stride (the number of middle
\* lines divided by 100) is not greater than 1, and an evenly spaced sample of
\* at most 100 lines otherwise.  Content whose estimate is within the budget
\* is returned unchanged.
C23_FirstRoundKeepsHeadMiddleTail ==
    LET n == Len(trunc.lines)
        head == Least(50, n)
        middleCount == IF n > 100 THEN n - 100 ELSE 0
        stride == middleCount \div 100
    IN  /\ (trunc.op = "truncate" /\ trunc.rounds >= 1) =>
              /\ Len(trunc.first) >= 2 * head
              /\ SubSeq(trunc.first, 1, head) = LinesFromTo(1, head)
              /\ SubSeq(trunc.first, Len(trunc.first) - head + 1, Len(trunc.first))
                    = LinesFromTo(n - head + 1, n)
              /\ IF stride <= 1
                 THEN FirstRoundMiddle = LinesFromTo(51, 50 + middleCount)
                 ELSE /\ Len(FirstRoundMiddle) <= 100
                      /\ \A k \in DOMAIN FirstRoundMiddle :
                            FirstRoundMiddle[k] = LinePiece(51 + (k - 1) * stride)
        /\ (trunc.op = "truncate" /\ trunc.pc = "done"
               /\ EstimateTokens(JoinLen(trunc.lines)) <= trunc.max_tokens) =>
              trunc.ret = ContentLines(trunc.lines)


\* the numbers of lines kept in the round after r failed rounds
KeepAfter(r) == 50 - 10 * r

\* the size of the sample of the middle in the round after r failed rounds
SampleAfter(r) == IF 100 - 20 * r > 20 THEN 100 - 20 * r ELSE 20

\* the first 10 lines, one marker, the last 10 lines
IsMinimal(ret, n) ==
    LET k == Least(10, n)
    IN  /\ Len(ret) = 2 * k + 1
        /\ SubSeq(ret, 1, k) = LinesFromTo(1, k)
        /\ ret[k + 1].kind = "marker"
        /\ SubSeq(ret, k + 2, 2 * k + 1) = LinesFromTo(n - k + 1, n)

\* what holds of the loop at every moment
RoundsAsClaimed ==
    /\ (trunc.op = "truncate" /\ trunc.pc = "loop") =>
          /\ trunc.rounds <= 4
          /\ trunc.keep_start = KeepAfter(trunc.rounds)
          /\ trunc.keep_end = KeepAfter(trunc.rounds)
          /\ trunc.keep_start \in {50, 40, 30, 20, 10}
          /\ trunc.remaining_lines = SampleAfter(trunc.rounds)
          /\ trunc.remaining_lines >= 20
    /\ (trunc.op = "truncate" /\ trunc.pc = "done") =>
          /\ trunc.rounds <= 5
          /\ trunc.how = "minimal" =>
                /\ trunc.rounds = 5
                /\ \E all \in {ContentLines(trunc.lines)} :
                   \E last \in {TruncateRound(all, 10, 10, 20)} :
                   \E lens \in {PieceLens(trunc.lines, last)} :
                      EstimateTokens(JoinLen(lens)) > trunc.max_tokens
                /\ IsMinimal(trunc.ret, Len(trunc.lines))

\* C24: the retry loop of the truncation terminates for every content and
\* every budget.  Each failed round lowers the number of lines kept at the
\* head and at the tail by 10 (50, 40, 30, 20, 10) and the size of the sample
\* of the middle by 20, never below 20; when 10 lines are kept and the budget
\* is still exceeded, the first 10 lines, exactly one 'truncated N lines'
\* marker and the last 10 lines are returned.  At most 5 rounds are run.
C24_TruncationTerminates ==
    /\ []RoundsAsClaimed
    /\ <>(trunc.op = "truncate" /\ trunc.pc = "done")

\* five rounds failed on a content of more than 20 lines and the minimal
\* version was returned
C24_Witness ==
    /\ trunc.op = "truncate" /\ trunc.pc = "done"
    /\ trunc.how = "minimal"
    /\ trunc.rounds = 5
    /\ Len(trunc.lines) > 20


\* how often line i of the content occurs in the pieces
TimesKept(pieces, i) ==
    Cardinality({ k \in DOMAIN pieces : pieces[k] = LinePiece(i) })

\* C29: truncation never makes content larger.  For every content and budget
\* the result has no more characters than the input, contains each line of the
\* input at most as many times as the input does, and every 'truncated N
\* lines' marker in it reports an N that is not negative; this includes
\* inputs of fewer than 100 lines and of fewer than 20 lines.
C29_TruncationNeverEnlarges ==
    (trunc.op = "truncate" /\ trunc.pc = "done") =>
        /\ JoinLen(PieceLens(trunc.lines, trunc.ret)) <= JoinLen(trunc.lines)
        /\ \A i \in DOMAIN trunc.lines : TimesKept(trunc.ret, i) <= 1
        /\ \A k \in DOMAIN trunc.ret :
              trunc.ret[k].kind = "marker" => trunc.ret[k].no >= 0


----------------------------------------------------------------------------
(* Claims about clear_cache and the tracked size of the content cache, *)
(* under SpecCache                                                     *)

\* the content, chunk and structure caches are empty
CachesEmpty ==
    /\ content_cache = <<>>
    /\ DOMAIN chunk_cache = {}
    /\ DOMAIN structure_cache = {}

\* the caches of an engine that was just constructed, with the index as it is
FreshEngine ==
    [content_cache |-> <<>>, cache_size |-> 0, chunk_cache |-> [q \in {} |-> NoChunks],
     index |-> IndexState]

\* C25: dropping the caches is safe.  After clear_cache() without a path the
\* content, chunk and structure caches are empty, and the calls that follow
\* return the same results, raise no error and evict the same entries as on
\* an engine constructed afresh on the same file system.  (Stated for each
\* getContent call made while the three caches are empty, which is where a
\* sequence of calls after clear_cache() starts.)
C25_ClearedEngineActsAsFresh ==
    [][ /\ ClearCacheAll => CachesEmpty'
        /\ \A path \in CachePaths, window \in ChunkWindows :
              (CachesEmpty /\ GetContent(path, window[1], window[2])) =>
                  \E fresh \in {GetFileContent(FreshEngine, path, window[1], window[2])} :
                     /\ call'.ret = fresh.ret
                     /\ call'.raised = fresh.raised
                     /\ call'.raised = "none"
                     /\ content_cache' = fresh.content_cache
                     /\ chunk_cache' = fresh.chunk_cache ]_vars

\* the bytes of the contents stored in the content cache
StoredBytes(cache) ==
    SumSeq([i \in 1..Len(cache) |-> EncodedSize(cache[i].content)])

\* C26: after any sequence of getContent and clearCache calls the tracked
\* size of the cache (_cache_size) equals the total UTF-8 byte length of the
\* contents stored in the content cache; re-reading a path whose entry went
\* stale and clearCache, with or without a path, keep the two equal.
C26_TrackedSizeIsStoredBytes ==
    cache_size = StoredBytes(content_cache)

\* C27: the eviction loop of the content cache only ever removes an existing
\* entry: it never runs while the content cache is empty, which would raise
\* out of getContent; whenever the tracked size exceeds MAX_CACHE_SIZE or the
\* count exceeds MAX_CACHE_ENTRIES there is an entry to evict.
C27_EvictionFindsAnEntry ==
    /\ call.op = "get" => call.raised # "StopIteration"
    /\ (cache_size > MAX_CACHE_SIZE \/ Len(content_cache) > MAX_CACHE_ENTRIES)
          => content_cache # <<>>


----------------------------------------------------------------------------
(* A claim about the errors of search, under Spec *)

\* C28: search returns a result list, possibly empty, without raising in every
\* reachable state of the index, including an empty index and an index in
\* which every stored document has zero tokens (avg_doc_length = 0).
C28_SearchNeverRaises ==
    lastOp.op = "search" => result.error = "none"


----------------------------------------------------------------------------
(* A claim about the content cache while the file is rewritten, under SpecRace *)

\* the file has been in a state with this content, modification time and size
FileHasBeen(content, mtime, size) ==
    [content |-> content, mtime |-> mtime, size |-> size] \in reader.seen

\* C30: every entry (content, mtime, size) of the content cache records
\* content that the file had when it had that modification time and size, also
\* when another process rewrites the file between the size stat of getContent,
\* its read and its mtime stat; hence a later getContent never serves content
\* older than the state of the file whose modification time and size it matched.
C30_EntryRecordsAFileState ==
    reader.op = "get" =>
        /\ \A k \in DOMAIN content_cache :
              content_cache[k].path = RacePath =>
                  FileHasBeen(content_cache[k].content[1].content, content_cache[k].mtime,
                              content_cache[k].size)
        /\ (reader.pc = "done" /\ reader.how = "hit") =>
              FileHasBeen(reader.ret[1].content, reader.matched.mtime, reader.matched.size)

============================================================================
